---- MODULE Spec2Model ----
(***************************************************************************)
(* A model of the script-executor execution pipeline                       *)
(* (rakeshavasarala/script-executor).                                      *)
(*                                                                         *)
(* State: the approvals configmap of the cluster (ConfigMapStore), the     *)
(* Jobs of the executor namespace, the wall clock, and a record `last`     *)
(* of the handler that ran most recently (its request and its response).   *)
(* One action per handler: Manager.Execute, Checker.Approve, Checker.Deny, *)
(* ConfigMapStore.Get, plus the platform's clock and its TTL controller.   *)
(*                                                                         *)
(* Strings are Go strings.  Times are whole hours.  The cluster API is     *)
(* taken to be reachable: a call fails only for the reason the cluster     *)
(* state gives (NotFound, AlreadyExists).                                  *)
(*                                                                         *)
(* Several specifications run the handlers on different requests: Spec     *)
(* (the approval flow), SpecLoad (the five script sources), SpecValidate   *)
(* (scripts and images, good and bad), SpecResources (resource limits),    *)
(* SpecLifecycle (retry budget, timeout, configuration files), SpecService *)
(* (the Execute and ExecuteStream RPCs).  SpecMonitor runs Monitor.Wait    *)
(* one loop iteration at a time against the platform; SpecConcurrent runs  *)
(* two callers whose Execute calls interleave at their cluster calls.      *)
(***************************************************************************)
EXTENDS Integers, Sequences, FiniteSets, TLC

VARIABLES
    cmExists,   \* the approvals configmap exists in the namespace
    store,      \* its Data: key -> approval Request (the decoded JSON object)
    jobs,       \* Jobs in the namespace: name -> Job
    now,        \* wall clock, in hours
    last,       \* the handler that ran last: op, request, response
    monitor,    \* a Monitor.Wait in progress and the Job it watches
    calls       \* Manager.Execute calls in progress, by caller

vars == <<cmExists, store, jobs, now, last, monitor, calls>>

-----------------------------------------------------------------------------
(* Generic helpers *)

\* m[k] = v on a Go map
Put(m, k, v) == [x \in (DOMAIN m) \cup {k} |-> IF x = k THEN v ELSE m[x]]

\* delete(m, k)
Del(m, k) == [x \in (DOMAIN m) \ {k} |-> m[x]]

EmptyMap == [x \in {} |-> x]

\* strings.HasPrefix
HasPrefix(s, p) == Len(s) >= Len(p) /\ SubSeq(s, 1, Len(p)) = p

\* strings.HasSuffix
HasSuffix(s, p) == Len(s) >= Len(p) /\ SubSeq(s, Len(s) - Len(p) + 1, Len(s)) = p

\* strings.TrimPrefix
TrimPrefix(s, p) == IF HasPrefix(s, p) THEN SubSeq(s, Len(p) + 1, Len(s)) ELSE s

\* strings.TrimSuffix
TrimSuffix(s, p) == IF HasSuffix(s, p) THEN SubSeq(s, 1, Len(s) - Len(p)) ELSE s

\* the i-th byte of s, as a string
At(s, i) == SubSeq(s, i, i)

\* Unicode simple case folding on the letters the model's names use
FoldTable ==
    [c \in {"A", "B", "C", "D", "E", "L", "I", "S", "R"} |->
        CASE c = "A" -> "a" [] c = "B" -> "b" [] c = "C" -> "c"
          [] c = "D" -> "d" [] c = "E" -> "e" [] c = "L" -> "l"
          [] c = "I" -> "i" [] c = "S" -> "s" [] c = "R" -> "r"]

FoldChar(c) == IF c \in DOMAIN FoldTable THEN FoldTable[c] ELSE c

RECURSIVE Fold(_)
Fold(s) == IF s = "" THEN "" ELSE FoldChar(At(s, 1)) \o Fold(SubSeq(s, 2, Len(s)))

\* strings.EqualFold
EqualFold(a, b) == Fold(a) = Fold(b)

-----------------------------------------------------------------------------
(* Approval store: ConfigMapStore *)

StatusPending  == "pending"
StatusApproved == "approved"
StatusDenied   == "denied"
StatusExpired  == "expired"

\* ExpiresAt = CreatedAt.Add(24 * time.Hour)
ApprovalTTL == 24

\* the zero Request (a nil *Request)
NilRequest == [ID |-> <<>>, ExecutionID |-> "", StepName |-> "", ScriptHash |-> "",
               Approvers |-> <<>>, Status |-> "", ApprovedBy |-> "", DeniedBy |-> "",
               CreatedAt |-> 0, ExpiresAt |-> 0]

\* fmt.Sprintf("%s-%s", executionID, stepName)
Key(executionID, stepName) == executionID \o "-" \o stepName

\* ConfigMapStore.Update: read the configmap, replace the entry, write it back
Update(ex, st, req) ==
    IF ~ex THEN [err |-> "configmap not found", store |-> st]
    ELSE [err |-> "", store |-> Put(st, Key(req.ExecutionID, req.StepName), req)]

\* a Get that returns the record as stored, with no expiration
Get_alt(ex, st, t, executionID, stepName) ==
    IF ~ex THEN [err |-> "configmap not found", req |-> NilRequest, store |-> st]
    ELSE IF Key(executionID, stepName) \notin DOMAIN st
    THEN [err |-> "approval request not found", req |-> NilRequest, store |-> st]
    ELSE [err |-> "", req |-> st[Key(executionID, stepName)], store |-> st]
\* ConfigMapStore.Get, with its lazy expiration of a pending record
Get(ex, st, t, executionID, stepName) ==
    IF ~ex THEN [err |-> "configmap not found", req |-> NilRequest, store |-> st]
    ELSE IF Key(executionID, stepName) \notin DOMAIN st
    THEN [err |-> "approval request not found", req |-> NilRequest, store |-> st]
    ELSE LET req == st[Key(executionID, stepName)] IN
         IF req.Status = StatusPending /\ t > req.ExpiresAt
         THEN LET exp == [req EXCEPT !.Status = StatusExpired] IN
              [err |-> "", req |-> exp, store |-> Update(ex, st, exp).store]
         ELSE [err |-> "", req |-> req, store |-> st]

\* a Create that returns without writing the record
Create_alt(ex, st, t, req) ==
    [err |-> "", exists |-> TRUE, store |-> st]
\* ConfigMapStore.Create (getOrCreate makes the configmap when it is missing)
Create(ex, st, t, req) ==
    LET r == [req EXCEPT !.ID = <<req.ExecutionID, req.StepName, t>>,
                         !.Status = StatusPending,
                         !.CreatedAt = t,
                         !.ExpiresAt = t + ApprovalTTL]
    IN [err |-> "", exists |-> TRUE,
        store |-> Put(st, Key(req.ExecutionID, req.StepName), r)]

-----------------------------------------------------------------------------
(* Approval flow: Checker *)

DefaultApprovers == <<"sre-leads">>

\* contains: case-insensitive membership
contains(slice, s) == \E i \in 1..Len(slice) : EqualFold(slice[i], s)

\* Checker.CreateRequest
CreateRequest(ex, st, t, executionID, stepName, scriptHash, approvers) ==
    Create(ex, st, t,
           [NilRequest EXCEPT !.ExecutionID = executionID,
                              !.StepName = stepName,
                              !.ScriptHash = scriptHash,
                              !.Approvers = IF Len(approvers) = 0
                                            THEN DefaultApprovers ELSE approvers])

\* a Check that takes an expired record for an approved one
Check_alt(g) ==
    IF g.err # "" THEN StatusPending
    ELSE CASE g.req.Status = StatusApproved -> StatusApproved
           [] g.req.Status = StatusDenied   -> StatusDenied
           [] g.req.Status = StatusExpired  -> StatusApproved
           [] g.req.Status = StatusPending  -> StatusPending
           [] OTHER -> StatusPending
\* Checker.Check: the gate status for the record Get returned (g)
Check(g) ==
    IF g.err # "" THEN StatusPending
    ELSE CASE g.req.Status = StatusApproved -> StatusApproved
           [] g.req.Status = StatusDenied   -> StatusDenied
           [] g.req.Status = StatusExpired  -> StatusPending
           [] g.req.Status = StatusPending  -> StatusPending
           [] OTHER -> StatusPending

\* an Approve that records the approver and leaves the status pending
Approve_alt(ex, st, t, executionID, stepName, approver) ==
    LET g == Get(ex, st, t, executionID, stepName) IN
    IF g.err # "" THEN [err |-> g.err, store |-> g.store]
    ELSE IF g.req.Status # StatusPending
    THEN [err |-> "cannot approve: status is " \o g.req.Status, store |-> g.store]
    ELSE IF ~contains(g.req.Approvers, approver)
    THEN [err |-> "user " \o approver \o " is not authorized to approve", store |-> g.store]
    ELSE Update(ex, g.store, [g.req EXCEPT !.ApprovedBy = approver])
\* Checker.Approve: error text and the store it leaves
Approve(ex, st, t, executionID, stepName, approver) ==
    LET g == Get(ex, st, t, executionID, stepName) IN
    IF g.err # "" THEN [err |-> g.err, store |-> g.store]
    ELSE IF g.req.Status # StatusPending
    THEN [err |-> "cannot approve: status is " \o g.req.Status, store |-> g.store]
    ELSE IF ~contains(g.req.Approvers, approver)
    THEN [err |-> "user " \o approver \o " is not authorized to approve", store |-> g.store]
    ELSE Update(ex, g.store, [g.req EXCEPT !.Status = StatusApproved,
                                           !.ApprovedBy = approver])

\* a Deny that does not look at the approver list
Deny_alt(ex, st, t, executionID, stepName, denier) ==
    LET g == Get(ex, st, t, executionID, stepName) IN
    IF g.err # "" THEN [err |-> g.err, store |-> g.store]
    ELSE IF g.req.Status # StatusPending
    THEN [err |-> "cannot deny: status is " \o g.req.Status, store |-> g.store]
    ELSE Update(ex, g.store, [g.req EXCEPT !.Status = StatusDenied,
                                           !.DeniedBy = denier])
\* Checker.Deny
Deny(ex, st, t, executionID, stepName, denier) ==
    LET g == Get(ex, st, t, executionID, stepName) IN
    IF g.err # "" THEN [err |-> g.err, store |-> g.store]
    ELSE IF g.req.Status # StatusPending
    THEN [err |-> "cannot deny: status is " \o g.req.Status, store |-> g.store]
    ELSE IF ~contains(g.req.Approvers, denier)
    THEN [err |-> "user " \o denier \o " is not authorized to deny", store |-> g.store]
    ELSE Update(ex, g.store, [g.req EXCEPT !.Status = StatusDenied,
                                           !.DeniedBy = denier])

-----------------------------------------------------------------------------
(* Parameter reader: the typed projections of the parameter bag.  A bag    *)
(* is a function from keys to values; a key that is absent, or whose value *)
(* has another type, reads as the zero value of the type asked for, so the *)
(* bags of the model carry "" / the empty map / FALSE / <<>> for them.     *)

getString(m, key, def) == IF key \in DOMAIN m /\ m[key] # "" THEN m[key] ELSE def

getMap(m, key) == IF key \in DOMAIN m THEN m[key] ELSE EmptyMap

getBool(m, key) == IF key \in DOMAIN m THEN m[key] ELSE FALSE

getStringSlice(m, key) == IF key \in DOMAIN m THEN m[key] ELSE <<>>

\* getInt: a number field is carried as <<n>>, a missing one as <<>>
getInt(m, key) == IF key \in DOMAIN m /\ m[key] # <<>> THEN m[key][1] ELSE 0

-----------------------------------------------------------------------------
(* The cluster objects the loader and the resolver read *)

ApprovedScriptsConfigMap == "approved-scripts"
ScriptRegistryConfigMap  == "script-registry"

\* configmaps of the executor namespace: name -> Data
ClusterConfigMaps ==
    ("deploy-scripts" :> ("run.sh" :> "echo cm" @@ "wipe.sh" :> "rm -rf /data"))
 @@ (ApprovedScriptsConfigMap :> ("ok.sh" :> "echo mounted"))

\* secrets of the executor namespace: name -> Data (decoded bytes)
ClusterSecrets == ("script-secret" :> ("run.sh" :> "echo sec"))

\* registry.yaml of the script-registry configmap, parsed: id -> RegistryEntry
ScriptRegistry ==
    ("backup" :> [configmap |-> "deploy-scripts", secret |-> "", key |-> "run.sh"])
 @@ ("rotate" :> [configmap |-> "", secret |-> "script-secret", key |-> "run.sh"])
 @@ ("broken" :> [configmap |-> "deploy-scripts", secret |-> "script-secret", key |-> "run.sh"])

\* catalog.yaml of the script-image-catalog configmap, parsed
ImageCatalog ==
    ("terraform" :> [Image |-> "harbor/terraform:1.7", PullSecret |-> "harbor-creds"])
 @@ ("tools" :> [Image |-> "evil/tools:1", PullSecret |-> ""])

-----------------------------------------------------------------------------
(* Script loader *)

SourceInline    == "inline"
SourceConfigMap == "configmap"
SourceSecret    == "secret"
SourcePath      == "path"
SourceRegistry  == "registry"

NilSource == [Type |-> "", Path |-> "", Name |-> "", Key |-> ""]

\* Loader.loadFromConfigMap / Registry.loadFromConfigMap
loadFromConfigMap(name, key) ==
    IF name \notin DOMAIN ClusterConfigMaps
    THEN [err |-> "configmaps \"" \o name \o "\" not found", content |-> ""]
    ELSE IF key \notin DOMAIN ClusterConfigMaps[name]
    THEN [err |-> "key \"" \o key \o "\" not found in configmap " \o name, content |-> ""]
    ELSE [err |-> "", content |-> ClusterConfigMaps[name][key]]

\* Loader.loadFromSecret / Registry.loadFromSecret
loadFromSecret(name, key) ==
    IF name \notin DOMAIN ClusterSecrets
    THEN [err |-> "secrets \"" \o name \o "\" not found", content |-> ""]
    ELSE IF key \notin DOMAIN ClusterSecrets[name]
    THEN [err |-> "key \"" \o key \o "\" not found in secret " \o name, content |-> ""]
    ELSE [err |-> "", content |-> ClusterSecrets[name][key]]

\* Loader.scriptPathExists
scriptPathExists(path) ==
    IF Len(path) < 9 \/ SubSeq(path, 1, 9) # "/scripts/"
    THEN [err |-> "script_path must start with /scripts/", exists |-> FALSE]
    ELSE IF SubSeq(path, 10, Len(path)) = ""
    THEN [err |-> "script_path must include filename after /scripts/", exists |-> FALSE]
    ELSE IF ApprovedScriptsConfigMap \notin DOMAIN ClusterConfigMaps
    THEN [err |-> "configmaps \"approved-scripts\" not found", exists |-> FALSE]
    ELSE [err |-> "",
          exists |-> SubSeq(path, 10, Len(path)) \in DOMAIN ClusterConfigMaps[ApprovedScriptsConfigMap]]

\* Registry.getEntry
getEntry(scriptID) ==
    IF scriptID \notin DOMAIN ScriptRegistry
    THEN [err |-> "script not found in registry: " \o scriptID]
    ELSE LET entry == ScriptRegistry[scriptID] IN
         IF (entry.configmap = "" /\ entry.secret = "") \/ entry.key = ""
         THEN [err |-> "invalid registry entry for " \o scriptID]
         ELSE IF entry.configmap # "" /\ entry.secret # ""
         THEN [err |-> "registry entry " \o scriptID \o " has both configmap and secret"]
         ELSE [err |-> "", entry |-> entry]

\* Registry.LoadByID
LoadByID(scriptID) ==
    LET e == getEntry(scriptID) IN
    IF e.err # "" THEN [err |-> e.err, content |-> "", source |-> NilSource]
    ELSE IF e.entry.configmap # ""
    THEN LET c == loadFromConfigMap(e.entry.configmap, e.entry.key) IN
         IF c.err # "" THEN [err |-> c.err, content |-> "", source |-> NilSource]
         ELSE [err |-> "", content |-> c.content,
               source |-> [NilSource EXCEPT !.Type = SourceRegistry,
                                            !.Name = e.entry.configmap, !.Key = e.entry.key]]
    ELSE LET c == loadFromSecret(e.entry.secret, e.entry.key) IN
         IF c.err # "" THEN [err |-> c.err, content |-> "", source |-> NilSource]
         ELSE [err |-> "", content |-> c.content,
               source |-> [NilSource EXCEPT !.Type = SourceRegistry,
                                            !.Name = e.entry.secret, !.Key = e.entry.key]]

LoadFail(msg) == [err |-> msg, content |-> "", source |-> NilSource]

\* a loader whose last step returns an empty script when no field is set
LoadFromID_alt(params) ==
    IF getString(params, "script_id", "") # ""
    THEN LET r == LoadByID(getString(params, "script_id", "")) IN
         IF r.err # "" THEN LoadFail("load by script_id: " \o r.err) ELSE r
    ELSE [err |-> "", content |-> "", source |-> NilSource]
\* Loader.LoadScript, step 5: script_id
LoadFromID(params) ==
    IF getString(params, "script_id", "") # ""
    THEN LET r == LoadByID(getString(params, "script_id", "")) IN
         IF r.err # "" THEN LoadFail("load by script_id: " \o r.err) ELSE r
    ELSE LoadFail("no script source provided (inline_script, script_from_configmap, script_from_secret, script_path, or script_id)")

\* Loader.LoadScript, step 4: script_path
LoadFromPath(params) ==
    IF getString(params, "script_path", "") # ""
    THEN LET path == getString(params, "script_path", "")
             x == scriptPathExists(path) IN
         IF x.err # "" THEN LoadFail("validate script path: " \o x.err)
         ELSE IF ~x.exists THEN LoadFail("script not found in approved-scripts: " \o path)
         ELSE [err |-> "", content |-> "",
               source |-> [NilSource EXCEPT !.Type = SourcePath, !.Path = path]]
    ELSE LoadFromID(params)

\* Loader.LoadScript, step 3: script_from_secret
LoadFromSecretRef(params) ==
    LET secretRef == getMap(params, "script_from_secret") IN
    IF DOMAIN secretRef # {}
    THEN LET secretName == getString(secretRef, "secret_name", "")
             key == getString(secretRef, "key", "") IN
         IF secretName = "" \/ key = ""
         THEN LoadFail("script_from_secret requires secret_name and key")
         ELSE LET c == loadFromSecret(secretName, key) IN
              IF c.err # "" THEN LoadFail("load from secret: " \o c.err)
              ELSE [err |-> "", content |-> c.content,
                    source |-> [NilSource EXCEPT !.Type = SourceSecret,
                                                 !.Name = secretName, !.Key = key]]
    ELSE LoadFromPath(params)

\* Loader.LoadScript, step 2: script_from_configmap
LoadFromConfigMapRef(params) ==
    LET cmRef == getMap(params, "script_from_configmap") IN
    IF DOMAIN cmRef # {}
    THEN LET cmName == getString(cmRef, "configmap_name", "")
             key == getString(cmRef, "key", "") IN
         IF cmName = "" \/ key = ""
         THEN LoadFail("script_from_configmap requires configmap_name and key")
         ELSE LET c == loadFromConfigMap(cmName, key) IN
              IF c.err # "" THEN LoadFail("load from configmap: " \o c.err)
              ELSE [err |-> "", content |-> c.content,
                    source |-> [NilSource EXCEPT !.Type = SourceConfigMap,
                                                 !.Name = cmName, !.Key = key]]
    ELSE LoadFromSecretRef(params)

\* a loader that looks at script_from_configmap before inline_script
LoadScript_alt(params) ==
    IF DOMAIN getMap(params, "script_from_configmap") # {}
    THEN LoadFromConfigMapRef(params)
    ELSE IF getString(params, "inline_script", "") # ""
    THEN [err |-> "", content |-> getString(params, "inline_script", ""),
          source |-> [NilSource EXCEPT !.Type = SourceInline]]
    ELSE LoadFromSecretRef(params)
\* Loader.LoadScript: the five sources in their fixed order
LoadScript(params) ==
    IF getString(params, "inline_script", "") # ""
    THEN [err |-> "", content |-> getString(params, "inline_script", ""),
          source |-> [NilSource EXCEPT !.Type = SourceInline]]
    ELSE LoadFromConfigMapRef(params)

-----------------------------------------------------------------------------
(* Script validator *)

\* unicode.IsSpace on the bytes the model's scripts use
IsSpace(c) == c \in {" ", "\t", "\n", "\r", "\f"}

\* index of the first byte of s that is c, 0 if there is none
IndexByte(s, c) ==
    LET idx == {i \in 1..Len(s) : At(s, i) = c} IN
    IF idx = {} THEN 0 ELSE CHOOSE i \in idx : \A j \in idx : i <= j

\* strings.Split(s, "\n")
RECURSIVE Split(_)
Split(s) ==
    LET i == IndexByte(s, "\n") IN
    IF i = 0 THEN <<s>>
    ELSE <<SubSeq(s, 1, i - 1)>> \o Split(SubSeq(s, i + 1, Len(s)))

\* bufio.Scanner with ScanLines: the lines of s without their line ends
ScanLines(s) ==
    LET raw == Split(s)
        lines == IF raw[Len(raw)] = "" THEN SubSeq(raw, 1, Len(raw) - 1) ELSE raw
    IN [i \in 1..Len(lines) |-> TrimSuffix(lines[i], "\r")]

\* strings.TrimSpace
RECURSIVE TrimSpace(_)
TrimSpace(s) ==
    IF s = "" THEN ""
    ELSE IF IsSpace(At(s, 1)) THEN TrimSpace(SubSeq(s, 2, Len(s)))
    ELSE IF IsSpace(At(s, Len(s))) THEN TrimSpace(SubSeq(s, 1, Len(s) - 1))
    ELSE s

\* strings.Fields
RECURSIVE Fields(_)
Fields(s) ==
    IF s = "" THEN <<>>
    ELSE IF IsSpace(At(s, 1)) THEN Fields(SubSeq(s, 2, Len(s)))
    ELSE LET sp == {i \in 1..Len(s) : IsSpace(At(s, i))}
             e == IF sp = {} THEN Len(s) + 1 ELSE CHOOSE i \in sp : \A j \in sp : i <= j
         IN <<SubSeq(s, 1, e - 1)>> \o Fields(SubSeq(s, e, Len(s)))

\* the command extractCommands takes from one line; "" marks a skipped line
\* and is kept apart from an extracted empty command by the flag
LineCommand(text) ==
    LET line == TrimSpace(text) IN
    IF line = "" \/ HasPrefix(line, "#") THEN [skip |-> TRUE, cmd |-> ""]
    ELSE LET fields == Fields(line)
             cmd == TrimPrefix(TrimPrefix(TrimPrefix(TrimPrefix(fields[1], "|"), "&&"), "||"), ";")
         IN IF (cmd = "sudo" \/ cmd = "su") /\ Len(fields) > 1
            THEN [skip |-> FALSE, cmd |-> fields[2]]
            ELSE [skip |-> FALSE, cmd |-> cmd]

\* ScriptValidator.extractCommands: the set of commands of the script
extractCommands(script) ==
    LET lines == ScanLines(script) IN
    {LineCommand(lines[i]).cmd : i \in {j \in 1..Len(lines) : ~LineCommand(lines[j]).skip}}

\* ScriptValidator.matchesCommand
matchesCommand(cmd, pattern) ==
    \/ cmd = pattern
    \/ HasSuffix(pattern, "*") /\ HasPrefix(cmd, TrimSuffix(pattern, "*"))

\* NewScriptValidator: the caps in force for the configured values
EffectiveMaxSize(maxSize) == IF maxSize <= 0 THEN 524288 ELSE maxSize
EffectiveMaxLines(maxLines) == IF maxLines <= 0 THEN 1000 ELSE maxLines

\* the commands of the script a blocked pattern matches
BlockedIn(blocked, script) ==
    {c \in extractCommands(script) : \E i \in 1..Len(blocked) : matchesCommand(c, blocked[i])}

\* the commands of the script no allow pattern matches
NotAllowedIn(allowed, script) ==
    {c \in extractCommands(script) : ~\E i \in 1..Len(allowed) : matchesCommand(c, allowed[i])}

\* a validator that accepts every script
ValidateScript_alt(blocked, allowed, maxSize, maxLines, script) ==
    [err |-> "", cmds |-> {}]
\* ScriptValidator.Validate: the kind of error ("" for none) and the commands
\* the message may name (Go ranges over the command set in no fixed order)
ValidateScript(blocked, allowed, maxSize, maxLines, script) ==
    IF Len(script) > EffectiveMaxSize(maxSize)
    THEN [err |-> "script too large", cmds |-> {}]
    ELSE IF Len(Split(script)) > EffectiveMaxLines(maxLines)
    THEN [err |-> "script too long", cmds |-> {}]
    ELSE IF BlockedIn(blocked, script) # {}
    THEN [err |-> "blocked command detected: ", cmds |-> BlockedIn(blocked, script)]
    ELSE IF Len(allowed) > 0 /\ NotAllowedIn(allowed, script) # {}
    THEN [err |-> "command not in allowlist: ", cmds |-> NotAllowedIn(allowed, script)]
    ELSE [err |-> "", cmds |-> {}]

-----------------------------------------------------------------------------
(* Image resolver and validator *)

\* a resolver that lets the request's pull secret go before the catalog's
Resolve_alt(image, imageRef, imagePullPolicy, imagePullSecret, defaults) ==
    IF image = "" /\ imageRef # "" /\ imageRef \notin DOMAIN ImageCatalog
    THEN [err |-> "image_ref \"" \o imageRef \o "\" not found in catalog",
          Image |-> "", PullSecret |-> "", PullPolicy |-> ""]
    ELSE [err |-> "",
          Image |-> IF image # "" THEN image
                    ELSE IF imageRef # "" THEN ImageCatalog[imageRef].Image
                    ELSE defaults.Image,
          PullSecret |-> IF imagePullSecret # "" THEN imagePullSecret
                         ELSE IF image = "" /\ imageRef # "" /\ ImageCatalog[imageRef].PullSecret # ""
                         THEN ImageCatalog[imageRef].PullSecret
                         ELSE defaults.PullSecret,
          PullPolicy |-> IF imagePullPolicy # "" THEN imagePullPolicy ELSE defaults.PullPolicy]

\* Resolver.Resolve (the catalog is loaded anew on every image_ref)
Resolve(image, imageRef, imagePullPolicy, imagePullSecret, defaults) ==
    IF image = "" /\ imageRef # "" /\ imageRef \notin DOMAIN ImageCatalog
    THEN [err |-> "image_ref \"" \o imageRef \o "\" not found in catalog",
          Image |-> "", PullSecret |-> "", PullPolicy |-> ""]
    ELSE LET img == IF image # "" THEN image
                    ELSE IF imageRef # "" THEN ImageCatalog[imageRef].Image
                    ELSE defaults.Image
             entrySecret == IF image = "" /\ imageRef # ""
                            THEN ImageCatalog[imageRef].PullSecret ELSE ""
             secret == IF entrySecret # "" THEN entrySecret
                       ELSE IF imagePullSecret # "" THEN imagePullSecret
                       ELSE defaults.PullSecret
             policy == IF imagePullPolicy # "" THEN imagePullPolicy
                       ELSE IF defaults.PullPolicy = "" THEN "IfNotPresent"
                       ELSE defaults.PullPolicy
         IN [err |-> "", Image |-> img, PullSecret |-> secret, PullPolicy |-> policy]

\* Validator.matches
matches(image, rawPattern) ==
    LET pattern == TrimSpace(rawPattern) IN
    IF pattern = "" THEN FALSE
    ELSE IF HasSuffix(pattern, "*") THEN HasPrefix(image, TrimSuffix(pattern, "*"))
    ELSE image = pattern

\* a validator that looks at the approved list first
ValidateImage_alt(approved, blocked, image) ==
    IF Len(approved) = 0 /\ Len(blocked) = 0 THEN ""
    ELSE IF \E i \in 1..Len(approved) : matches(image, approved[i]) THEN ""
    ELSE IF \E i \in 1..Len(blocked) : matches(image, blocked[i])
    THEN "image " \o image \o " is blocked"
    ELSE IF Len(approved) > 0 THEN "image " \o image \o " is not in approved list"
    ELSE ""

\* Validator.Validate
ValidateImage(approved, blocked, image) ==
    IF Len(approved) = 0 /\ Len(blocked) = 0 THEN ""
    ELSE IF \E i \in 1..Len(blocked) : matches(image, blocked[i])
    THEN LET first == CHOOSE i \in 1..Len(blocked) :
                         /\ matches(image, blocked[i])
                         /\ \A j \in 1..(i - 1) : ~matches(image, blocked[j])
         IN "image " \o image \o " is blocked (matches " \o blocked[first] \o ")"
    ELSE IF Len(approved) > 0 /\ ~\E i \in 1..Len(approved) : matches(image, approved[i])
    THEN "image " \o image \o " is not in approved list"
    ELSE ""

-----------------------------------------------------------------------------
(* Quantities and durations.  resource.MustParse and time.ParseDuration    *)
(* are library code; the model parses the subset <digits><suffix> with     *)
(* suffix "", "m", "Mi", "Gi" (quantities) and "ms", "s", "m", "h"         *)
(* (durations) and takes every other string as malformed.  A duration is   *)
(* a number of milliseconds.                                               *)

Digits == {"0", "1", "2", "3", "4", "5", "6", "7", "8", "9"}

DigitVal(c) ==
    CASE c = "0" -> 0 [] c = "1" -> 1 [] c = "2" -> 2 [] c = "3" -> 3 [] c = "4" -> 4
      [] c = "5" -> 5 [] c = "6" -> 6 [] c = "7" -> 7 [] c = "8" -> 8 [] c = "9" -> 9

\* length of the longest prefix of s made of digits
RECURSIVE DigitPrefixLen(_)
DigitPrefixLen(s) ==
    IF s # "" /\ At(s, 1) \in Digits THEN 1 + DigitPrefixLen(SubSeq(s, 2, Len(s))) ELSE 0

\* value of a string of digits
RECURSIVE Atoi(_)
Atoi(s) == IF s = "" THEN 0 ELSE 10 * Atoi(SubSeq(s, 1, Len(s) - 1)) + DigitVal(At(s, Len(s)))

\* milli-units in one Mi: a quantity is kept as <<whole Mi, remaining milli-units>>
MilliPerMi == 1024 * 1024 * 1000

\* resource.ParseQuantity on the subset
ParseQuantity(s) ==
    LET n == DigitPrefixLen(s)
        num == Atoi(SubSeq(s, 1, n))
        suffix == SubSeq(s, n + 1, Len(s))
    IN IF n = 0 \/ suffix \notin {"", "m", "Mi", "Gi"} THEN [ok |-> FALSE, q |-> <<0, 0>>]
       ELSE CASE suffix = "m"  -> [ok |-> TRUE, q |-> <<num \div MilliPerMi, num % MilliPerMi>>]
              [] suffix = ""   -> [ok |-> TRUE, q |-> <<(num * 1000) \div MilliPerMi, (num * 1000) % MilliPerMi>>]
              [] suffix = "Mi" -> [ok |-> TRUE, q |-> <<num, 0>>]
              [] suffix = "Gi" -> [ok |-> TRUE, q |-> <<num * 1024, 0>>]

\* Quantity.Cmp
Cmp(a, b) ==
    IF a[1] # b[1] THEN (IF a[1] < b[1] THEN -1 ELSE 1)
    ELSE IF a[2] # b[2] THEN (IF a[2] < b[2] THEN -1 ELSE 1)
    ELSE 0

\* time.ParseDuration on the subset
ParseDuration(s) ==
    LET n == DigitPrefixLen(s)
        num == Atoi(SubSeq(s, 1, n))
        unit == SubSeq(s, n + 1, Len(s))
    IN IF n = 0 \/ unit \notin {"ms", "s", "m", "h"} THEN [err |-> "time: invalid duration", d |-> 0]
       ELSE CASE unit = "ms" -> [err |-> "", d |-> num]
              [] unit = "s" -> [err |-> "", d |-> num * 1000]
              [] unit = "m" -> [err |-> "", d |-> num * 60 * 1000]
              [] unit = "h" -> [err |-> "", d |-> num * 3600 * 1000]

\* parseDuration
parseDuration(s) == IF s = "" THEN [err |-> "", d |-> 0] ELSE ParseDuration(s)

-----------------------------------------------------------------------------
(* Configuration (config.defaultConfig, with the values a config file may  *)
(* override: the script caps and the image lists)                          *)

\* security.max_script_size and security.max_script_lines of the config file
CfgMaxScriptSize == 40
CfgMaxScriptLines == 3

Config ==
    [ApprovalEnabled  |-> TRUE,
     DefaultApprovers |-> DefaultApprovers,
     BlockedCommands  |-> <<"rm", "dd", "mkfs", "fdisk", "mkswap", "sudo", "su", "setuid",
                            "reboot", "shutdown", "init", "systemctl", "nmap", "masscan",
                            "kill", "killall", "pkill">>,
     MaxScriptSize    |-> CfgMaxScriptSize,
     MaxScriptLines   |-> CfgMaxScriptLines,
     DefaultTimeout   |-> "5m",
     MaxTimeout       |-> "30m",
     RunAsNonRoot     |-> TRUE,
     RunAsUser        |-> 65534,
     FSGroup          |-> 65534,
     ReadOnlyRootFilesystem |-> TRUE,
     AuditEnabled     |-> TRUE,
     BackoffLimit     |-> 0,
     DefaultImage     |-> "alpine:latest",
     DefaultImagePullSecret |-> "",
     DefaultImagePullPolicy |-> "IfNotPresent",
     ApprovedImages   |-> <<>>,
     BlockedImages    |-> <<"evil/*">>,
     DefaultResources |-> [Requests |-> [CPU |-> "100m", Memory |-> "64Mi"],
                           Limits |-> [CPU |-> "500m", Memory |-> "256Mi", EphemeralStorage |-> "1Gi"]],
     MaxResources     |-> [Limits |-> [CPU |-> "4000m", Memory |-> "8Gi", EphemeralStorage |-> "20Gi"]]]

\* a Config as yaml.Unmarshal leaves it for an empty file: every field zero
ZeroConfig ==
    [ApprovalEnabled  |-> FALSE, DefaultApprovers |-> <<>>, BlockedCommands |-> <<>>,
     MaxScriptSize    |-> 0, MaxScriptLines |-> 0, DefaultTimeout |-> "", MaxTimeout |-> "",
     RunAsNonRoot     |-> FALSE, RunAsUser |-> 0, FSGroup |-> 0, ReadOnlyRootFilesystem |-> FALSE,
     AuditEnabled     |-> FALSE,
     BackoffLimit     |-> 0, DefaultImage |-> "", DefaultImagePullSecret |-> "",
     DefaultImagePullPolicy |-> "", ApprovedImages |-> <<>>, BlockedImages |-> <<>>,
     DefaultResources |-> [Requests |-> [CPU |-> "", Memory |-> ""],
                           Limits |-> [CPU |-> "", Memory |-> "", EphemeralStorage |-> ""]],
     MaxResources     |-> [Limits |-> [CPU |-> "", Memory |-> "", EphemeralStorage |-> ""]]]

\* a merge that takes the security settings of the file as well
mergeConfig_alt(dst, src) ==
    [dst EXCEPT !.BackoffLimit = IF src.BackoffLimit # 0 THEN src.BackoffLimit ELSE @,
                !.RunAsNonRoot = src.RunAsNonRoot,
                !.ReadOnlyRootFilesystem = src.ReadOnlyRootFilesystem]
\* mergeConfig: the fields of the file's Config that replace the defaults
mergeConfig(dst, src) ==
    [dst EXCEPT !.BackoffLimit = IF src.BackoffLimit # 0 THEN src.BackoffLimit ELSE @,
                !.DefaultImage = IF src.DefaultImage # "" THEN src.DefaultImage ELSE @,
                !.DefaultImagePullSecret =
                    IF src.DefaultImagePullSecret # "" THEN src.DefaultImagePullSecret ELSE @,
                !.ApprovedImages = IF Len(src.ApprovedImages) > 0 THEN src.ApprovedImages ELSE @,
                !.BlockedImages = IF Len(src.BlockedImages) > 0 THEN src.BlockedImages ELSE @,
                !.MaxScriptSize = IF src.MaxScriptSize # 0 THEN src.MaxScriptSize ELSE @,
                !.MaxScriptLines = IF src.MaxScriptLines # 0 THEN src.MaxScriptLines ELSE @]

\* Config.DefaultTimeout
DefaultTimeout(cfg) ==
    IF ParseDuration(cfg.DefaultTimeout).err # "" THEN 5 * 60 * 1000
    ELSE ParseDuration(cfg.DefaultTimeout).d

\* Config.MaxTimeout
MaxTimeout(cfg) ==
    IF ParseDuration(cfg.MaxTimeout).err # "" THEN 30 * 60 * 1000
    ELSE ParseDuration(cfg.MaxTimeout).d

-----------------------------------------------------------------------------
(* Workload builder *)

ResourceCPU == "cpu"
ResourceMemory == "memory"
ResourceEphemeralStorage == "ephemeral-storage"

\* the quantity strings buildResources hands to resource.MustParse, in order
\* of use: a malformed one aborts the handler (MustParse panics)
ResourceStrings(params, cfg) ==
    LET res == getMap(params, "resources")
        reqs == getMap(res, "requests")
        lims == getMap(res, "limits")
        d == cfg.DefaultResources
        m == cfg.MaxResources.Limits
    IN {d.Requests.CPU, d.Requests.Memory, d.Limits.CPU, d.Limits.Memory, d.Limits.EphemeralStorage,
        getString(reqs, "cpu", ""), getString(reqs, "memory", ""),
        getString(lims, "cpu", ""), getString(lims, "memory", ""),
        getString(lims, "ephemeral_storage", ""),
        m.CPU, m.Memory} \ {""}

\* a resource list entry: the override from the bag if given, else the default
Chosen(override, default) == IF override # "" THEN override ELSE default

\* ResourceList built from (name, quantity string) pairs, "" meaning not set
ResourceList(pairs) ==
    [n \in {p[1] : p \in {q \in pairs : q[2] # ""}} |->
        ParseQuantity((CHOOSE p \in pairs : p[1] = n)[2]).q]

\* the cap step of buildResources for one resource
CapAt(list, name, max) ==
    IF max # "" /\ name \in DOMAIN list /\ Cmp(list[name], ParseQuantity(max).q) > 0
    THEN [list EXCEPT ![name] = ParseQuantity(max).q]
    ELSE list

\* buildResources
buildResources(params, cfg) ==
    LET res == getMap(params, "resources")
        reqs == getMap(res, "requests")
        lims == getMap(res, "limits")
        d == cfg.DefaultResources
        m == cfg.MaxResources.Limits
    IN IF \E str \in ResourceStrings(params, cfg) : ~ParseQuantity(str).ok
       THEN [panic |-> TRUE, Requests |-> EmptyMap, Limits |-> EmptyMap]
       ELSE [panic |-> FALSE,
             Requests |-> ResourceList({<<ResourceCPU, Chosen(getString(reqs, "cpu", ""), d.Requests.CPU)>>,
                                        <<ResourceMemory, Chosen(getString(reqs, "memory", ""), d.Requests.Memory)>>}),
             Limits |-> CapAt(CapAt(
                          ResourceList({<<ResourceCPU, Chosen(getString(lims, "cpu", ""), d.Limits.CPU)>>,
                                        <<ResourceMemory, Chosen(getString(lims, "memory", ""), d.Limits.Memory)>>,
                                        <<ResourceEphemeralStorage,
                                          Chosen(getString(lims, "ephemeral_storage", ""), d.Limits.EphemeralStorage)>>}),
                          ResourceCPU, m.CPU), ResourceMemory, m.Memory)]

\* the backoff step of BuildContext: the configured default, replaced by a
\* request value that is not negative, which is capped at 3
backoffLimit(params, cfg) ==
    LET bl == getInt(params, "backoff_limit") IN
    IF bl >= 0 THEN (IF bl > 3 THEN 3 ELSE bl) ELSE cfg.BackoffLimit

\* parsePullPolicy: a policy outside the three names reads as IfNotPresent
parsePullPolicy(s) ==
    IF s \in {"Always", "IfNotPresent", "Never"} THEN s ELSE "IfNotPresent"

NilContext == [ExecutionID |-> "", Script |-> "", ScriptSource |-> NilSource, ScriptHash |-> "",
               Image |-> "", ImagePullPolicy |-> "", ImagePullSecret |-> "",
               Interpreter |-> "", Timeout |-> 0,
               BackoffLimit |-> 0,
               Resources |-> [Requests |-> EmptyMap, Limits |-> EmptyMap]]

\* BuildContext: the fields of the execution context the Job is built from.
\* The pull policy is read from the parameters again; the imagePullPolicy
\* argument (the resolver's) is not read.
BuildContext(params, scriptContent, source, scriptHash, image, imagePullPolicy, imagePullSecret, cfg) ==
    LET timeoutStr == getString(params, "timeout", cfg.DefaultTimeout)
        dur == parseDuration(timeoutStr)
        res == buildResources(params, cfg)
        policy == parsePullPolicy(getString(params, "image_pull_policy", ""))
    IN IF dur.err # ""
       THEN [err |-> "invalid timeout \"" \o timeoutStr \o "\": " \o dur.err,
             panic |-> FALSE, ctx |-> NilContext]
       ELSE IF res.panic
       THEN [err |-> "", panic |-> TRUE, ctx |-> NilContext]
       ELSE [err |-> "", panic |-> FALSE,
             ctx |-> [NilContext EXCEPT
                        !.Script = scriptContent, !.ScriptSource = source,
                        !.ScriptHash = scriptHash, !.Image = image,
                        !.ImagePullPolicy = IF policy = "" THEN cfg.DefaultImagePullPolicy
                                            ELSE policy,
                        !.ImagePullSecret = imagePullSecret,
                        !.Interpreter = getString(params, "interpreter", "/bin/bash"),
                        !.Timeout = IF dur.d = 0 THEN DefaultTimeout(cfg) ELSE dur.d,
                        !.BackoffLimit = backoffLimit(params, cfg),
                        !.Resources = [Requests |-> res.Requests, Limits |-> res.Limits]]]

\* JobBuilder.Build: the fields of the Job manifest (the active deadline is
\* the timeout's whole seconds)
Build(ctx, cfg) ==
    [Name |-> "script-exec-" \o ctx.ExecutionID,
     ExecutionID |-> ctx.ExecutionID,
     ScriptHash |-> ctx.ScriptHash,
     Image |-> ctx.Image,
     ImagePullPolicy |-> ctx.ImagePullPolicy,
     ImagePullSecrets |-> IF ctx.ImagePullSecret # "" THEN <<ctx.ImagePullSecret>> ELSE <<>>,
     BackoffLimit |-> ctx.BackoffLimit,
     ActiveDeadlineSeconds |-> ctx.Timeout \div 1000,
     Command |-> IF ctx.ScriptSource.Type = SourcePath
                 THEN <<ctx.Interpreter, ctx.ScriptSource.Path>>
                 ELSE <<ctx.Interpreter, "-c", ctx.Script>>,
     Resources |-> ctx.Resources,
     PodSecurityContext |-> [RunAsNonRoot |-> cfg.RunAsNonRoot, RunAsUser |-> cfg.RunAsUser,
                             FSGroup |-> cfg.FSGroup, SeccompProfile |-> "RuntimeDefault"],
     SecurityContext |-> [AllowPrivilegeEscalation |-> FALSE,
                          ReadOnlyRootFilesystem |-> cfg.ReadOnlyRootFilesystem,
                          RunAsNonRoot |-> cfg.RunAsNonRoot, RunAsUser |-> cfg.RunAsUser,
                          Drop |-> <<"ALL">>],
     Phase |-> "active"]

-----------------------------------------------------------------------------
(* Manager.Execute *)

\* hex(sha256(content)): an injective rendering of the content
Sha256Hex(content) == "sha256:" \o content

NilOutput == [exit_code |-> -1, script_hash |-> "", job_name |-> ""]

NilResponse == [Status |-> "", Error |-> "", Output |-> NilOutput]

NilJob == [Name |-> "", ExecutionID |-> "", ScriptHash |-> "", Image |-> "",
           ImagePullPolicy |-> "", ImagePullSecrets |-> <<>>,
           BackoffLimit |-> 0, ActiveDeadlineSeconds |-> 0, Command |-> <<>>,
           Resources |-> [Requests |-> EmptyMap, Limits |-> EmptyMap],
           PodSecurityContext |-> [RunAsNonRoot |-> FALSE, RunAsUser |-> 0, FSGroup |-> 0,
                                   SeccompProfile |-> ""],
           SecurityContext |-> [AllowPrivilegeEscalation |-> FALSE,
                                ReadOnlyRootFilesystem |-> FALSE, RunAsNonRoot |-> FALSE,
                                RunAsUser |-> 0, Drop |-> <<>>],
           Phase |-> ""]

\* an error response that drops the message
errorResponse_alt(err) == [Status |-> "failed", Error |-> "", Output |-> NilOutput]
\* errorResponse
errorResponse(err) == [Status |-> "failed", Error |-> err, Output |-> NilOutput]

\* the result of a handler run: the response; how far the pipeline went
\* (stage); the status of the record the gate read (rec, "" for none) and the
\* gate status Check made of it (gate, "" when the gate was not evaluated);
\* whether Jobs.Create was called (submitted) and made the Job (created);
\* the timeout of the execution context and the deadline handed to the
\* monitor (0 when the run did not get there) and what the monitor came
\* back with (mon); the records the run wrote to the audit log;
\* the source the loader returned; the commands a validation error may
\* name; the cluster state it leaves
Outcome(resp, stage, rec, gate, job, ex, st, jb) ==
    [resp |-> resp, stage |-> stage, rec |-> rec, gate |-> gate,
     submitted |-> (job.Name # ""), created |-> (job.Name # "" /\ stage # "create"),
     job |-> job, source |-> NilSource, cmds |-> {}, timeout |-> 0, deadline |-> 0, mon |-> "",
     audit |-> <<>>,
     cmExists |-> ex, store |-> st, jobs |-> jb]

\* a Create that replaces a Job of the same name
JobsCreate_alt(jb, job) == [err |-> "", jobs |-> Put(jb, job.Name, job)]
\* Jobs(namespace).Create on the API server: names are unique in a namespace
JobsCreate(jb, job) ==
    IF job.Name \in DOMAIN jb
    THEN [err |-> "jobs.batch \"" \o job.Name \o "\" already exists", jobs |-> jb]
    ELSE [err |-> "", jobs |-> Put(jb, job.Name, job)]

\* the end of step 8: what Execute makes of the answer r to its Create
Created(p, r) ==
    IF r.err # ""
    THEN [p EXCEPT !.resp = errorResponse("create job: " \o r.err), !.stage = "create",
                   !.created = FALSE]
    ELSE [p EXCEPT !.resp = NilResponse, !.stage = "wait", !.created = TRUE, !.jobs = r.jobs]

\* step 8: build the Job and create it on the cluster
Submit(ctx, rec, gate, ex, st, jb, cfg) ==
    LET job == Build(ctx, cfg) IN
    Created(Outcome(NilResponse, "create", rec, gate, job, ex, st, jb), JobsCreate(jb, job))

\* step 7: build the execution context, then go on to the Job
BuildAndSubmit(params, executionID, ld, scriptHash, resolved, rec, gate, ex, st, jb, cfg) ==
    LET b == BuildContext(params, ld.content, ld.source, scriptHash,
                          resolved.Image, resolved.PullPolicy, resolved.PullSecret, cfg) IN
    IF b.err # "" THEN Outcome(errorResponse(b.err), "build", rec, gate, NilJob, ex, st, jb)
    ELSE IF b.panic
    THEN Outcome([NilResponse EXCEPT !.Status = "panic"], "build", rec, gate, NilJob, ex, st, jb)
    ELSE [Submit([b.ctx EXCEPT !.ExecutionID = executionID], rec, gate, ex, st, jb, cfg)
             EXCEPT !.timeout = b.ctx.Timeout]

\* a gate that stops a pending request only
Gate_alt(params, executionID, ld, scriptHash, resolved, ex, st, jb, t, cfg) ==
    IF getBool(params, "approval_required") /\ cfg.ApprovalEnabled
    THEN LET approvers == IF Len(getStringSlice(params, "approvers")) = 0
                          THEN cfg.DefaultApprovers ELSE getStringSlice(params, "approvers")
             stepName == getString(params, "step_name", "default")
             g == Get(ex, st, t, executionID, stepName)
             rec == IF g.err # "" THEN "" ELSE g.req.Status
             status == Check(g)
         IN IF status = StatusPending
            THEN LET c == CreateRequest(ex, g.store, t, executionID, stepName, scriptHash, approvers) IN
                 Outcome([Status |-> "pending", Error |-> "Awaiting approval", Output |-> NilOutput],
                         "approval", rec, status, NilJob, c.exists, c.store, jb)
            ELSE BuildAndSubmit(params, executionID, ld, scriptHash, resolved, rec, status,
                                ex, g.store, jb, cfg)
    ELSE BuildAndSubmit(params, executionID, ld, scriptHash, resolved, "", "", ex, st, jb, cfg)
\* step 6: the approval gate
Gate(params, executionID, ld, scriptHash, resolved, ex, st, jb, t, cfg) ==
    IF getBool(params, "approval_required") /\ cfg.ApprovalEnabled
    THEN LET approvers == IF Len(getStringSlice(params, "approvers")) = 0
                          THEN cfg.DefaultApprovers ELSE getStringSlice(params, "approvers")
             stepName == getString(params, "step_name", "default")
             g == Get(ex, st, t, executionID, stepName)
             rec == IF g.err # "" THEN "" ELSE g.req.Status
             status == Check(g)
         IN IF status = StatusPending
            THEN LET c == CreateRequest(ex, g.store, t, executionID, stepName, scriptHash, approvers) IN
                 Outcome([Status |-> "pending", Error |-> "Awaiting approval", Output |-> NilOutput],
                         "approval", rec, status, NilJob, c.exists, c.store, jb)
            ELSE IF status = StatusDenied
            THEN Outcome(errorResponse("execution was denied"), "approval", rec, status, NilJob,
                         ex, g.store, jb)
            ELSE BuildAndSubmit(params, executionID, ld, scriptHash, resolved, rec, status,
                                ex, g.store, jb, cfg)
    ELSE BuildAndSubmit(params, executionID, ld, scriptHash, resolved, "", "", ex, st, jb, cfg)

\* steps 3-5: hash the script, resolve and validate the image
ResolveAndGate(params, executionID, ld, ex, st, jb, t, cfg) ==
    LET scriptHash == IF ld.content # "" THEN Sha256Hex(ld.content) ELSE ""
        resolved == Resolve(getString(params, "image", ""), getString(params, "image_ref", ""),
                            getString(params, "image_pull_policy", ""),
                            getString(params, "image_pull_secret", ""),
                            [Image |-> cfg.DefaultImage, PullSecret |-> cfg.DefaultImagePullSecret,
                             PullPolicy |-> cfg.DefaultImagePullPolicy])
        imageErr == IF resolved.err # "" THEN ""
                    ELSE ValidateImage(cfg.ApprovedImages, cfg.BlockedImages, resolved.Image)
    IN IF resolved.err # ""
       THEN Outcome(errorResponse("resolve image: " \o resolved.err), "resolve", "", "", NilJob, ex, st, jb)
       ELSE IF imageErr # ""
       THEN Outcome(errorResponse("image validation: " \o imageErr), "image", "", "", NilJob, ex, st, jb)
       ELSE Gate(params, executionID, ld, scriptHash, resolved, ex, st, jb, t, cfg)

\* the script check of step 2 (skipped for script_path and for empty content)
ScriptCheck(ld, cfg) ==
    IF ld.source.Type # SourcePath /\ ld.content # ""
    THEN ValidateScript(cfg.BlockedCommands, <<>>, cfg.MaxScriptSize, cfg.MaxScriptLines, ld.content)
    ELSE [err |-> "", cmds |-> {}]

\* Manager.Execute, steps 1-8, on the cluster state (ex, st, jb) at time t
Pipeline(req, ex, st, jb, t, cfg) ==
    LET params == req.Parameters
        executionID == IF req.Context.ExecutionId = ""
                       THEN "exec-" \o ToString(t) ELSE req.Context.ExecutionId
        ld == LoadScript(params)
        v == IF ld.err # "" THEN [err |-> "", cmds |-> {}] ELSE ScriptCheck(ld, cfg)
    IN IF ld.err # "" THEN Outcome(errorResponse(ld.err), "load", "", "", NilJob, ex, st, jb)
       ELSE IF v.err # ""
       THEN [Outcome(errorResponse("script validation: " \o v.err), "validate", "", "", NilJob, ex, st, jb)
                EXCEPT !.cmds = v.cmds, !.source = ld.source]
       ELSE [ResolveAndGate(params, executionID, ld, ex, st, jb, t, cfg) EXCEPT !.source = ld.source]

\* what the monitor's Wait can come back with
MonitorOutcomes == {"succeeded", "failed", "timeout", "deleted", "cancelled"}

\* Logger.LogExecution: the audit record of a run whose Job ended
LogExecution(p, succeeded, exitCode) ==
    [event |-> "script_execution", execution_id |-> p.job.ExecutionID,
     script_hash |-> p.job.ScriptHash, script_source |-> p.source.Type,
     succeeded |-> succeeded, exit_code |-> exitCode]

\* a step 9 that removes the Job when the wait ends in an error
Wait_alt(p, req, mon, cfg) ==
    [p EXCEPT !.resp = errorResponse("wait for job: " \o mon), !.mon = mon,
              !.jobs = Del(p.jobs, p.job.Name)]
\* steps 9-11 for a pipeline run p that created its Job: the monitor comes
\* back with mon, the response is built
Wait(p, req, mon, cfg) ==
    LET name == p.job.Name
        audit(ok, code) == IF cfg.AuditEnabled THEN <<LogExecution(p, ok, code)>> ELSE <<>>
        output(code) == [exit_code |-> code, script_hash |-> p.job.ScriptHash, job_name |-> name]
        timeout == IF req.Timeout > 0 THEN req.Timeout ELSE p.timeout
        w == [p EXCEPT !.deadline = timeout + 30 * 1000, !.mon = mon]
    IN CASE mon = "succeeded" ->
              [w EXCEPT !.resp = [Status |-> "succeeded", Error |-> "", Output |-> output(0)],
                        !.stage = "done", !.jobs[name].Phase = "complete",
                        !.audit = audit(TRUE, 0)]
         [] mon = "failed" ->
              [w EXCEPT !.resp = [Status |-> "failed", Error |-> "exit code 1", Output |-> output(1)],
                        !.stage = "done", !.jobs[name].Phase = "failed",
                        !.audit = audit(FALSE, 1)]
         [] mon = "timeout" ->
              [w EXCEPT !.resp = errorResponse("wait for job: job " \o name \o " timed out")]
         [] mon = "deleted" ->
              [w EXCEPT !.resp = errorResponse("wait for job: job " \o name \o " was deleted"),
                        !.jobs = Del(p.jobs, name)]
         [] mon = "cancelled" ->
              [w EXCEPT !.resp = errorResponse("wait for job: context canceled")]

\* Manager.Execute as a whole: mon is what the monitor comes back with and
\* pick the command a validation error names (Go ranges over the command
\* set in no fixed order)
ExecuteOutcome(p, req, mon, pick, cfg) ==
    IF p.created THEN Wait(p, req, mon, cfg)
    ELSE [p EXCEPT !.resp.Error = @ \o pick]

-----------------------------------------------------------------------------
(* Requests *)

\* a parameter bag with no key set
NoParams ==
    [inline_script |-> "", script_from_configmap |-> EmptyMap, script_from_secret |-> EmptyMap,
     script_path |-> "", script_id |-> "",
     image |-> "", image_ref |-> "", image_pull_policy |-> "", image_pull_secret |-> "",
     interpreter |-> "", timeout |-> "", backoff_limit |-> <<>>, resources |-> EmptyMap,
     approval_required |-> FALSE, approvers |-> <<>>, step_name |-> ""]

\* an ExecuteRequest; Timeout is the optional override, 0 when not given
Request(executionId, params) ==
    [StepType |-> "script.run", Context |-> [ExecutionId |-> executionId],
     Parameters |-> params, Timeout |-> 0]

NilRequestMsg == Request("", NoParams)

\* bounds of the clock: it moves in steps of TickStep hours up to MaxTime
TickStep == 24
MaxTime == 48

\* the requests of the approval flow
ExecutionIds == {"e1"}
StepNames == {"", "deploy"}
ApproverLists == {<<>>, <<"Alice">>}
Timeouts == {"", "bogus"}
Users == {"alice", "mallory"}

FlowRequests ==
    {Request(e, [NoParams EXCEPT !.inline_script = "echo hi", !.step_name = s,
                                 !.approval_required = a, !.approvers = ap]) :
        e \in ExecutionIds, s \in StepNames, a \in BOOLEAN, ap \in ApproverLists}
    \cup {Request(e, [NoParams EXCEPT !.inline_script = "echo hi", !.approval_required = TRUE,
                                      !.approvers = <<"Alice">>, !.timeout = to]) :
            e \in ExecutionIds, to \in Timeouts}
    \cup {Request(e, [NoParams EXCEPT !.inline_script = "rm -rf /data",
                                      !.approval_required = TRUE]) : e \in ExecutionIds}

\* the step names the approval API is called with
ApiStepNames == {"default", "deploy"}

\* scripts over the configured caps
TooLarge == "echo 0123456789 0123456789 0123456789 0123456789"
TooLong == "echo 1\necho 2\necho 3\necho 4\necho 5"

\* the requests of the loader: every combination of the five source fields
InlineScripts == {"", "echo hi"}
ConfigMapRefs == {EmptyMap,
                  [configmap_name |-> "deploy-scripts", key |-> "run.sh"],
                  [configmap_name |-> "missing", key |-> "run.sh"]}
SecretRefs == {EmptyMap, [secret_name |-> "script-secret", key |-> "run.sh"]}
ScriptPaths == {"", "/scripts/ok.sh", "/tmp/x.sh"}
ScriptIds == {"", "rotate", "broken"}

LoadRequests ==
    {Request("e1", [NoParams EXCEPT !.inline_script = i, !.script_from_configmap = c,
                                    !.script_from_secret = sc, !.script_path = sp,
                                    !.script_id = id, !.approval_required = TRUE]) :
        i \in InlineScripts, c \in ConfigMapRefs, sc \in SecretRefs,
        sp \in ScriptPaths, id \in ScriptIds}

\* the requests of the validation phase: scripts and images, good and bad
ScriptParams ==
    {[NoParams EXCEPT !.inline_script = i] : i \in {"", "echo hi", "rm -rf /data", TooLarge, TooLong}}
    \cup {[NoParams EXCEPT !.script_from_configmap = [configmap_name |-> "deploy-scripts", key |-> k]] :
            k \in {"run.sh", "wipe.sh", "none.sh"}}

ValidationRequests ==
    {Request("e1", [sp EXCEPT !.image = im[1], !.image_ref = im[2], !.approval_required = a]) :
        sp \in ScriptParams,
        im \in {<<"", "">>, <<"evil/x:1", "">>, <<"", "tools">>, <<"", "nope">>, <<"", "terraform">>},
        a \in BOOLEAN}

\* the requests that set resource limits
CpuLimits == {"", "2", "5", "lots"}
MemoryLimits == {"", "9Gi"}
StorageLimits == {"", "50Gi"}

ResourceRequests ==
    {Request("e1", [NoParams EXCEPT !.inline_script = "echo hi",
                                    !.resources = [limits |-> [cpu |-> c, memory |-> m,
                                                               ephemeral_storage |-> es]]]) :
        c \in CpuLimits, m \in MemoryLimits, es \in StorageLimits}

\* the requests that set the lifecycle knobs: retry budget, timeout and the
\* request-level timeout override (in milliseconds)
BackoffLimits == {<<>>, <<-1>>, <<2>>, <<7>>}
TimeoutParams == {"", "90s", "1500ms", "2h", "bogus"}
TimeoutOverrides == {0, 45000}

LifecycleRequests ==
    {[Request("e1", [NoParams EXCEPT !.inline_script = "echo hi", !.backoff_limit = bl,
                                     !.timeout = to]) EXCEPT !.Timeout = ov] :
        bl \in BackoffLimits, to \in TimeoutParams, ov \in TimeoutOverrides}

\* the requests of the RPC surface: step types, and parameters that end the
\* pipeline at different stages
StepTypes == {"script.run", "http.call"}

ServiceParams ==
    {[NoParams EXCEPT !.inline_script = "echo hi"],
     [NoParams EXCEPT !.inline_script = "rm -rf /data"],
     [NoParams EXCEPT !.inline_script = "echo hi", !.approval_required = TRUE],
     [NoParams EXCEPT !.inline_script = "echo hi", !.timeout = "bogus"],
     [NoParams EXCEPT !.inline_script = "echo hi",
                      !.resources = [limits |-> [cpu |-> "lots"]]]}

ServiceRequests ==
    {[Request(id, p) EXCEPT !.StepType = t] :
        id \in {"e1", "e2"}, p \in ServiceParams, t \in StepTypes}

\* the config files: job_defaults.backoff_limit set or not, the security
\* section absent (all zero) or switching the hardening off or on
FileConfigs ==
    {[ZeroConfig EXCEPT !.BackoffLimit = b, !.RunAsNonRoot = r, !.ReadOnlyRootFilesystem = ro] :
        b \in {0, 5}, r \in BOOLEAN, ro \in BOOLEAN}

\* config.Load: the defaults merged with the file
LifecycleConfigs == {mergeConfig(Config, f) : f \in FileConfigs}

\* the requests of the image phase: the image named, referenced or left to
\* the default, with and without a pull secret of its own ...
ImageSourceParams ==
    {[NoParams EXCEPT !.inline_script = "echo hi", !.image = im, !.image_ref = ref,
                      !.image_pull_secret = ps] :
        im \in {"", "busybox:1", "busybox:1.36"},
        ref \in {"", "terraform", "tools", "nope"},
        ps \in {"", "req-creds"}}

\* ... and a pull policy absent, valid or invalid
PullPolicyParams ==
    {[NoParams EXCEPT !.inline_script = "echo hi", !.image_pull_policy = pp] :
        pp \in {"", "Always", "Never", "sometimes"}}

ImageRequests == {Request("e1", p) : p \in ImageSourceParams \cup PullPolicyParams}

\* the image section of the config file: the defaults set or not ...
ImageDefaultFiles ==
    {[ZeroConfig EXCEPT !.DefaultImage = d, !.DefaultImagePullSecret = s,
                        !.DefaultImagePullPolicy = p] :
        d \in {"", "ubuntu:22.04"}, s \in {"", "default-creds"}, p \in {"", "Always"}}

\* ... and the approved and blocked lists set or not
ImageListFiles ==
    {[ZeroConfig EXCEPT !.ApprovedImages = a, !.BlockedImages = b] :
        a \in {<<>>, <<"harbor/*", "busybox:1">>},
        b \in {<<>>, <<"harbor/terraform*", "alpine:latest">>}}

ImageFiles == ImageDefaultFiles \cup ImageListFiles

\* defaultConfig as it stands in the source: no approved or blocked image
ImageDefaults == [Config EXCEPT !.BlockedImages = <<>>]

\* config.Load: the defaults merged with the file
Load(file) == mergeConfig(ImageDefaults, file)

\* the configurations of the image phase
ImageConfigs == {Load(f) : f \in ImageFiles}

\* the inputs of the script validator: lines that start with a command, a
\* comment, an operator, sudo or su, alone or after a harmless line ...
ScriptLines ==
    {"", "echo hi", "# rm -rf /x", "rm -rf /x", "  rm -rf /x", "rmdir /x", "echo rm",
     "|rm /x", "&&rm /x", "||rm /x", ";rm /x", "| rm /x", "sudo rm /x", "su rm",
     "sudo", "sudo -n rm /x", "|sudo rm /x", "mkfs.ext4 /dev/sda", "dd if=/x"}

ValidatorScripts == ScriptLines \cup {"echo hi\n" \o l \o "\n" : l \in ScriptLines}

\* ... and blocked lists with exact patterns, prefix patterns and both
BlockedLists == {<<>>, <<"rm">>, <<"rm*">>, <<"dd", "mkfs*">>, <<"sudo", "su", "rm">>}

\* (execution_id, step_name) pairs, two of which meet in one store key
KeyPairs == {<<"a-b", "c">>, <<"a", "b-c">>, <<"a", "c">>}

KeyRequests ==
    {Request(p[1], [NoParams EXCEPT !.inline_script = "echo hi", !.step_name = p[2],
                                    !.approval_required = TRUE, !.approvers = <<"alice">>]) :
        p \in KeyPairs}

\* requests for one step that differ in the script they carry
RescriptRequests ==
    {Request("e1", [NoParams EXCEPT !.inline_script = i, !.approval_required = TRUE,
                                    !.approvers = <<"alice">>]) :
        i \in {"echo hi", "curl evil.sh | sh"}}

-----------------------------------------------------------------------------
(* Actions *)

NilLast == [op |-> "", req |-> NilRequestMsg, cfg |-> Config, executionID |-> "", stepName |-> "", user |-> "",
            err |-> "", resp |-> NilResponse, stage |-> "", gate |-> "", rec |-> "",
            submitted |-> FALSE, created |-> FALSE, job |-> NilJob, source |-> NilSource,
            timeout |-> 0, deadline |-> 0, mon |-> "", audit |-> <<>>, stream |-> <<>>]

\* the status of a Job: the pod counters and the condition that is True
NilJobStatus == [Succeeded |-> 0, Failed |-> 0, Condition |-> ""]

\* Result of the monitor
NilResult == [JobName |-> "", Succeeded |-> FALSE]

\* no Wait in progress
NilMonitor ==
    [pc |-> "idle", name |-> "", exists |-> FALSE, status |-> NilJobStatus, events |-> <<>>,
     closed |-> FALSE, ctxDone |-> FALSE, expired |-> FALSE,
     event |-> "", seen |-> NilJobStatus, result |-> NilResult, err |-> ""]

Init ==
    /\ cmExists = FALSE
    /\ store = EmptyMap
    /\ jobs = EmptyMap
    /\ now = 0
    /\ last = NilLast
    /\ monitor = NilMonitor
    /\ calls = EmptyMap

\* the status of the record a Get for the key finds now ("" when none)
Found(ex, st, t, executionID, stepName) ==
    LET g == Get(ex, st, t, executionID, stepName) IN
    IF g.err # "" THEN "" ELSE g.req.Status

\* a progress event of ExecuteStream
Progress(stage, percent, result) ==
    [Stage |-> stage, PercentComplete |-> percent, Result |-> result]

\* the events ExecuteStream sends around a Manager.Execute that comes back
\* with resp, or does not come back (a panic ends the handler)
StreamOf(resp) ==
    IF resp.Status = "panic"
    THEN <<Progress("STARTING", 0, NilResponse)>>
    ELSE <<Progress("STARTING", 0, NilResponse), Progress("RUNNING", 50, NilResponse),
           Progress("DONE", 100, resp)>>

\* Manager.Execute handles req on behalf of the RPC rpc, the service running
\* under configuration cfg
ManagerExecute(rpc, req, cfg) ==
    \E p \in {Pipeline(req, cmExists, store, jobs, now, cfg)} :
    \E mon \in IF p.created THEN MonitorOutcomes ELSE {""},
       pick \in IF p.cmds = {} THEN {""} ELSE p.cmds :
    \E o \in {ExecuteOutcome(p, req, mon, pick, cfg)} :
        /\ cmExists' = o.cmExists
        /\ store' = o.store
        /\ jobs' = o.jobs
        /\ now' = now
        /\ UNCHANGED <<monitor, calls>>
        /\ last' = [NilLast EXCEPT !.op = rpc, !.req = req, !.cfg = cfg,
                                   !.stream = IF rpc = "ExecuteStream" THEN StreamOf(o.resp)
                                              ELSE <<>>,
                                   !.executionID = req.Context.ExecutionId,
                                   !.stepName = getString(req.Parameters, "step_name", "default"),
                                   !.resp = o.resp, !.stage = o.stage, !.gate = o.gate,
                                   !.rec = o.rec, !.submitted = o.submitted,
                                   !.created = o.created, !.job = o.job,
                                   !.source = o.source, !.timeout = o.timeout,
                                   !.deadline = o.deadline, !.mon = o.mon,
                                   !.audit = o.audit]

\* Manager.Execute called through the Execute RPC
ExecuteWith(req, cfg) == ManagerExecute("Execute", req, cfg)

\* Manager.Execute under the default configuration
Execute(req) == ExecuteWith(req, Config)

\* ScriptValidator.Validate called on script by a validator made by
\* NewScriptValidator(blocked, nil, 0, 0); err is the error it returns
ScriptValidate(blocked, script) ==
    \E v \in {ValidateScript(blocked, <<>>, 0, 0, script)} :
    \E pick \in IF v.cmds = {} THEN {""} ELSE v.cmds :
        /\ last' = [NilLast EXCEPT !.op = "Validate",
                                   !.req = Request("", [NoParams EXCEPT !.inline_script = script]),
                                   !.cfg = [Config EXCEPT !.BlockedCommands = blocked],
                                   !.err = v.err \o pick]
        /\ UNCHANGED <<cmExists, store, jobs, now, monitor, calls>>

\* an RPC refused with codes.Unimplemented: nothing runs
Unimplemented(rpc, req, msg) ==
    /\ last' = [NilLast EXCEPT !.op = rpc, !.req = req, !.err = msg]
    /\ UNCHANGED <<cmExists, store, jobs, now, monitor, calls>>

\* ScriptExecutor.Execute
ServiceExecute(req) ==
    IF req.StepType # "script.run"
    THEN Unimplemented("Execute", req, "unknown step type: " \o req.StepType)
    ELSE ManagerExecute("Execute", req, Config)

\* ScriptExecutor.ExecuteStream
ExecuteStream(req) ==
    IF req.StepType # "script.run"
    THEN Unimplemented("ExecuteStream", req,
                       "step type " \o req.StepType \o " does not support streaming")
    ELSE ManagerExecute("ExecuteStream", req, Config)

\* POST /api/v1/approvals/{execution_id}/{step_name}/approve
ApproveCall(executionID, stepName, user) ==
    \E r \in {Approve(cmExists, store, now, executionID, stepName, user)} :
    /\ store' = r.store
    /\ last' = [NilLast EXCEPT !.op = "Approve", !.executionID = executionID,
                               !.stepName = stepName, !.user = user, !.err = r.err,
                               !.rec = Found(cmExists, store, now, executionID, stepName)]
    /\ UNCHANGED <<cmExists, jobs, now, monitor, calls>>

\* POST /api/v1/approvals/{execution_id}/{step_name}/deny
DenyCall(executionID, stepName, user) ==
    \E r \in {Deny(cmExists, store, now, executionID, stepName, user)} :
    /\ store' = r.store
    /\ last' = [NilLast EXCEPT !.op = "Deny", !.executionID = executionID,
                               !.stepName = stepName, !.user = user, !.err = r.err,
                               !.rec = Found(cmExists, store, now, executionID, stepName)]
    /\ UNCHANGED <<cmExists, jobs, now, monitor, calls>>

\* ConfigMapStore.Get called on its own
GetCall(executionID, stepName) ==
    \E g \in {Get(cmExists, store, now, executionID, stepName)} :
    /\ store' = g.store
    /\ last' = [NilLast EXCEPT !.op = "Get", !.executionID = executionID,
                               !.stepName = stepName, !.err = g.err,
                               !.rec = IF g.err # "" THEN "" ELSE g.req.Status]
    /\ UNCHANGED <<cmExists, jobs, now, monitor, calls>>

\* time passes
Tick ==
    /\ now + TickStep <= MaxTime
    /\ now' = now + TickStep
    /\ last' = [NilLast EXCEPT !.op = "Tick"]
    /\ UNCHANGED <<cmExists, store, jobs, monitor, calls>>

\* the platform runs an active Job to its end
JobFinishes(name, phase) ==
    /\ name \in DOMAIN jobs
    /\ jobs[name].Phase = "active"
    /\ jobs' = [jobs EXCEPT ![name].Phase = phase]
    /\ last' = [NilLast EXCEPT !.op = "JobFinishes"]
    /\ UNCHANGED <<cmExists, store, now, monitor, calls>>

\* the platform's TTL-after-finished controller removes a finished Job
TTLDelete(name) ==
    /\ name \in DOMAIN jobs
    /\ jobs[name].Phase # "active"
    /\ jobs' = Del(jobs, name)
    /\ last' = [NilLast EXCEPT !.op = "TTLDelete"]
    /\ UNCHANGED <<cmExists, store, now, monitor, calls>>

-----------------------------------------------------------------------------
(* Concurrent Manager.Execute calls.  A call runs steps 1-7 and builds its *)
(* Job, then sends its Create to the API server, then waits for the Job:   *)
(* other calls run between these steps.  Nobody deletes a Job while the    *)
(* calls are in flight.                                                    *)

Callers == {"c1", "c2"}

\* the requests of the callers: one execution, with and without approval
ConcurrentRequests ==
    {Request("e1", [NoParams EXCEPT !.inline_script = "echo hi"]),
     Request("e1", [NoParams EXCEPT !.inline_script = "echo hi", !.step_name = "deploy",
                                    !.approval_required = TRUE, !.approvers = <<"alice">>])}

\* steps 1-7 and the Job built at step 8, before Jobs.Create is called (the
\* Jobs of the cluster play no part up to there)
Prepared(req, ex, st, t, cfg) == Pipeline(req, ex, st, EmptyMap, t, cfg)

NilCall ==
    [pc |-> "idle", req |-> NilRequestMsg, job |-> NilJob, resp |-> NilResponse,
     timeout |-> 0, created |-> FALSE]

\* a call arrives and runs up to the point where it has built its Job
CallPrepare(c, req) ==
    /\ calls[c].pc \in {"idle", "done"}
    /\ \E p \in {Prepared(req, cmExists, store, now, Config)} :
        /\ cmExists' = p.cmExists
        /\ store' = p.store
        /\ calls' = [calls EXCEPT ![c] =
                        IF p.submitted
                        THEN [@ EXCEPT !.pc = "submit", !.req = req, !.job = p.job,
                                       !.resp = NilResponse, !.timeout = p.timeout]
                        ELSE [@ EXCEPT !.pc = "done", !.req = req, !.job = NilJob,
                                       !.resp = p.resp, !.timeout = 0]]
    /\ UNCHANGED <<jobs, now, last, monitor>>

\* the Create of a call reaches the API server
CallSubmit(c) ==
    /\ calls[c].pc = "submit"
    /\ \E r \in {JobsCreate(jobs, calls[c].job)} :
        /\ jobs' = r.jobs
        /\ calls' = [calls EXCEPT ![c] =
                        IF r.err # ""
                        THEN [@ EXCEPT !.pc = "done",
                                       !.resp = errorResponse("create job: " \o r.err)]
                        ELSE [@ EXCEPT !.pc = "wait", !.created = TRUE]]
    /\ UNCHANGED <<cmExists, store, now, last, monitor>>

\* the monitor of a call comes back and the call returns
CallFinish(c, mon) ==
    /\ calls[c].pc = "wait"
    /\ \E o \in {Wait([Outcome(NilResponse, "wait", "", "", calls[c].job, cmExists, store, jobs)
                          EXCEPT !.timeout = calls[c].timeout],
                       calls[c].req, mon, Config)} :
        /\ jobs' = o.jobs
        /\ calls' = [calls EXCEPT ![c] = [@ EXCEPT !.pc = "done", !.resp = o.resp]]
    /\ UNCHANGED <<cmExists, store, now, last, monitor>>

InitConcurrent ==
    /\ cmExists = FALSE /\ store = EmptyMap /\ jobs = EmptyMap /\ now = 0
    /\ last = NilLast /\ monitor = NilMonitor
    /\ calls = [c \in Callers |-> NilCall]

NextConcurrent ==
    \/ \E c \in Callers, req \in ConcurrentRequests : CallPrepare(c, req)
    \/ \E c \in Callers : CallSubmit(c)
    \/ \E c \in Callers, mon \in MonitorOutcomes \ {"deleted"} : CallFinish(c, mon)
    \/ ApproveCall("e1", "deploy", "alice")

\* two callers whose Execute calls interleave
SpecConcurrent == InitConcurrent /\ [][NextConcurrent]_vars

-----------------------------------------------------------------------------
(* Concurrent calls on the approval store.  Every call reads the configmap *)
(* (the Get of ConfigMapStore.Get) and later writes it (ConfigMapStore     *)
(* Update and Create, each a Get of the configmap followed at once by its  *)
(* Update); other calls run between a call's read and each of its writes.  *)

Clients == {"c1", "c2", "c3"}

\* the request whose approval the clients work on
GatedRequest ==
    Request("e1", [NoParams EXCEPT !.inline_script = "echo hi", !.approval_required = TRUE,
                                   !.approvers = <<"alice">>])

\* the read of ConfigMapStore.Get: the configmap fetched, the entry decoded
Fetch(ex, st, executionID, stepName) ==
    IF ~ex THEN [err |-> "configmap not found", req |-> NilRequest]
    ELSE IF Key(executionID, stepName) \notin DOMAIN st
    THEN [err |-> "approval request not found", req |-> NilRequest]
    ELSE [err |-> "", req |-> st[Key(executionID, stepName)]]

\* the rest of ConfigMapStore.Get on what it read (raw) at time t: the
\* record it returns, and the Update it makes first when the record is stale
Expire(raw, t) ==
    IF raw.err = "" /\ raw.req.Status = StatusPending /\ t > raw.req.ExpiresAt
    THEN [err |-> "", req |-> [raw.req EXCEPT !.Status = StatusExpired],
          todo |-> <<[kind |-> "expire", req |-> [raw.req EXCEPT !.Status = StatusExpired]]>>]
    ELSE [err |-> raw.err, req |-> raw.req, todo |-> <<>>]

\* an Approve that does not look at the status of the record
ApproveSteps_alt(g, approver) ==
    IF g.err # "" THEN [err |-> g.err, todo |-> g.todo]
    ELSE IF ~contains(g.req.Approvers, approver)
    THEN [err |-> "user " \o approver \o " is not authorized to approve", todo |-> g.todo]
    ELSE [err |-> "",
          todo |-> Append(g.todo, [kind |-> "update",
                                   req |-> [g.req EXCEPT !.Status = StatusApproved,
                                                         !.ApprovedBy = approver]])]
\* Checker.Approve after its Get returned g: the error it returns without
\* writing, or the Update it makes
ApproveSteps(g, approver) ==
    IF g.err # "" THEN [err |-> g.err, todo |-> g.todo]
    ELSE IF g.req.Status # StatusPending
    THEN [err |-> "cannot approve: status is " \o g.req.Status, todo |-> g.todo]
    ELSE IF ~contains(g.req.Approvers, approver)
    THEN [err |-> "user " \o approver \o " is not authorized to approve", todo |-> g.todo]
    ELSE [err |-> "",
          todo |-> Append(g.todo, [kind |-> "update",
                                   req |-> [g.req EXCEPT !.Status = StatusApproved,
                                                         !.ApprovedBy = approver]])]

\* Checker.Deny after its Get returned g
DenySteps(g, denier) ==
    IF g.err # "" THEN [err |-> g.err, todo |-> g.todo]
    ELSE IF g.req.Status # StatusPending
    THEN [err |-> "cannot deny: status is " \o g.req.Status, todo |-> g.todo]
    ELSE IF ~contains(g.req.Approvers, denier)
    THEN [err |-> "user " \o denier \o " is not authorized to deny", todo |-> g.todo]
    ELSE [err |-> "",
          todo |-> Append(g.todo, [kind |-> "update",
                                   req |-> [g.req EXCEPT !.Status = StatusDenied,
                                                         !.DeniedBy = denier]])]

\* step 6 of Manager.Execute after the Get of Check returned g: the gate
\* status, and the CreateRequest it makes when the status is pending
GateSteps(g, req) ==
    LET status == Check(g)
        approvers == IF Len(getStringSlice(req.Parameters, "approvers")) = 0
                     THEN Config.DefaultApprovers
                     ELSE getStringSlice(req.Parameters, "approvers")
    IN IF status = StatusPending
       THEN [gate |-> status,
             todo |-> Append(g.todo,
                             [kind |-> "create",
                              req |-> [NilRequest EXCEPT
                                         !.ExecutionID = req.Context.ExecutionId,
                                         !.StepName = getString(req.Parameters, "step_name", "default"),
                                         !.ScriptHash = Sha256Hex(LoadScript(req.Parameters).content),
                                         !.Approvers = approvers]])]
       ELSE [gate |-> status, todo |-> g.todo]

\* a client's call: what it is (op, req, key, user), where it stands (pc),
\* the status of the record it read ("" for none), the writes it has still
\* to make, the gate status of an Execute, and what it returned
NilStoreCall ==
    [op |-> "", req |-> NilRequestMsg, key |-> "", user |-> "", pc |-> "idle", seen |-> "",
     todo |-> <<>>, gate |-> "", err |-> "", resp |-> NilResponse]

\* where a call stands after its read, or after a write
After(call) ==
    IF call.todo # <<>> THEN "write"
    ELSE IF call.op = "Execute" /\ call.gate = StatusApproved THEN "submit"
    ELSE "done"

\* the response of an Execute that ends at the gate
GateResponse(call) ==
    IF call.op # "Execute" \/ After(call) # "done" THEN NilResponse
    ELSE IF call.gate = StatusDenied THEN errorResponse("execution was denied")
    ELSE [Status |-> "pending", Error |-> "Awaiting approval", Output |-> NilOutput]

Begun(c, call) ==
    /\ calls[c].pc = "idle"
    /\ calls' = [calls EXCEPT ![c] = [call EXCEPT !.pc = After(call),
                                                  !.resp = GateResponse(call)]]
    /\ UNCHANGED <<cmExists, store, jobs, now, last, monitor>>

\* POST .../approve arrives: Checker.Approve up to the return of its Get
BeginApprove(c, executionID, stepName, user) ==
    \E raw \in {Fetch(cmExists, store, executionID, stepName)} :
    \E s \in {ApproveSteps(Expire(raw, now), user)} :
        Begun(c, [NilStoreCall EXCEPT !.op = "Approve", !.key = Key(executionID, stepName),
                                      !.user = user, !.seen = raw.req.Status,
                                      !.todo = s.todo, !.err = s.err])

\* POST .../deny arrives: Checker.Deny up to the return of its Get
BeginDeny(c, executionID, stepName, user) ==
    \E raw \in {Fetch(cmExists, store, executionID, stepName)} :
    \E s \in {DenySteps(Expire(raw, now), user)} :
        Begun(c, [NilStoreCall EXCEPT !.op = "Deny", !.key = Key(executionID, stepName),
                                      !.user = user, !.seen = raw.req.Status,
                                      !.todo = s.todo, !.err = s.err])

\* a get of the record arrives
BeginGet(c, executionID, stepName) ==
    \E raw \in {Fetch(cmExists, store, executionID, stepName)} :
    \E g \in {Expire(raw, now)} :
        Begun(c, [NilStoreCall EXCEPT !.op = "Get", !.key = Key(executionID, stepName),
                                      !.seen = raw.req.Status, !.todo = g.todo, !.err = g.err])

\* an Execute arrives: steps 1-5 and the Get of the gate
BeginExecute(c, req) ==
    \E raw \in {Fetch(cmExists, store, req.Context.ExecutionId,
                      getString(req.Parameters, "step_name", "default"))} :
    \E s \in {GateSteps(Expire(raw, now), req)} :
        Begun(c, [NilStoreCall EXCEPT !.op = "Execute", !.req = req,
                                      !.key = Key(req.Context.ExecutionId,
                                                  getString(req.Parameters, "step_name", "default")),
                                      !.seen = raw.req.Status, !.todo = s.todo,
                                      !.gate = s.gate])

\* the next write of a call reaches the API server (Get drops the error of
\* the Update that expires a record; the other writes return theirs)
StoreWrite(c) ==
    /\ calls[c].pc = "write"
    /\ LET w == Head(calls[c].todo)
           r == IF w.kind = "create"
                THEN Create(cmExists, store, now, w.req)
                ELSE Update(cmExists, store, w.req) @@ [exists |-> cmExists]
           rest == [calls[c] EXCEPT !.todo = Tail(@),
                                    !.err = IF w.kind # "expire" /\ r.err # "" THEN r.err ELSE @]
       IN /\ store' = r.store
          /\ cmExists' = r.exists
          /\ calls' = [calls EXCEPT ![c] = [rest EXCEPT !.pc = After(rest),
                                                        !.resp = GateResponse(rest)]]
    /\ UNCHANGED <<jobs, now, last, monitor>>

\* an Execute that passed the gate builds and submits its Job and waits
StoreSubmit(c, mon) ==
    /\ calls[c].pc = "submit"
    /\ LET req == calls[c].req
           ld == LoadScript(req.Parameters)
           resolved == Resolve(getString(req.Parameters, "image", ""),
                               getString(req.Parameters, "image_ref", ""),
                               getString(req.Parameters, "image_pull_policy", ""),
                               getString(req.Parameters, "image_pull_secret", ""),
                               [Image |-> Config.DefaultImage,
                                PullSecret |-> Config.DefaultImagePullSecret,
                                PullPolicy |-> Config.DefaultImagePullPolicy])
           p == BuildAndSubmit(req.Parameters, req.Context.ExecutionId, ld,
                               Sha256Hex(ld.content), resolved, calls[c].seen, calls[c].gate,
                               cmExists, store, jobs, Config)
           o == ExecuteOutcome(p, req, IF p.created THEN mon ELSE "", "", Config)
       IN /\ jobs' = o.jobs
          /\ calls' = [calls EXCEPT ![c] = [@ EXCEPT !.pc = "done", !.resp = o.resp]]
    /\ UNCHANGED <<cmExists, store, now, last, monitor>>

InitStore ==
    /\ cmExists = FALSE /\ store = EmptyMap /\ jobs = EmptyMap /\ now = 0
    /\ last = NilLast /\ monitor = NilMonitor
    /\ calls = [c \in Clients |-> NilStoreCall]

\* time passes while calls are in flight
StoreTick ==
    /\ now + TickStep <= MaxTime
    /\ now' = now + TickStep
    /\ UNCHANGED <<cmExists, store, jobs, last, monitor, calls>>

NextStore ==
    \/ \E c \in Clients : BeginExecute(c, GatedRequest)
    \/ \E c \in Clients, u \in Users : BeginApprove(c, "e1", "default", u)
    \/ \E c \in Clients, u \in Users : BeginDeny(c, "e1", "default", u)
    \/ \E c \in Clients : BeginGet(c, "e1", "default")
    \/ \E c \in Clients : StoreWrite(c)
    \/ \E c \in Clients, mon \in {"succeeded", "failed"} : StoreSubmit(c, mon)
    \/ StoreTick

\* three clients, one call each, on the approval record of one step
SpecStore == InitStore /\ [][NextStore]_vars

-----------------------------------------------------------------------------
(* Monitor.Wait, one loop iteration per action, and the platform it        *)
(* watches.  monitor.status is the Job's status on the API server,         *)
(* monitor.events the watch events on their way to the watcher's channel.  *)

\* how many pods of the Job the platform lets fail
MaxPodFailures == 2

\* isJobComplete
isJobComplete(status) == status.Condition = "Complete" \/ status.Succeeded > 0

\* isJobFailed
isJobFailed(status) == status.Condition = "Failed" \/ status.Failed > 0

\* a collectResult that takes a failed pod for a failed Job
collectResult_alt(name, status) ==
    [JobName |-> name, Succeeded |-> status.Succeeded > 0 /\ status.Failed = 0]
\* collectResult: the fields of the Result that come from the Job
collectResult(name, status) == [JobName |-> name, Succeeded |-> status.Succeeded > 0]

\* the platform changes the Job's status and sends the watch event
StatusUpdate(status) ==
    monitor' = [monitor EXCEPT !.status = status,
                               !.events = IF monitor.closed THEN @
                                          ELSE Append(@, [Type |-> "MODIFIED", Status |-> status])]

Others == <<cmExists, store, jobs, now, last, calls>>

\* a pod of the Job exits 0
PodSucceeds ==
    /\ monitor.exists /\ monitor.status.Condition = "" /\ monitor.status.Succeeded = 0
    /\ StatusUpdate([monitor.status EXCEPT !.Succeeded = 1])
    /\ UNCHANGED Others

\* a pod of the Job exits non-zero; the Job controller may start another
PodFails ==
    /\ monitor.exists /\ monitor.status.Condition = "" /\ monitor.status.Succeeded = 0
    /\ monitor.status.Failed < MaxPodFailures
    /\ StatusUpdate([monitor.status EXCEPT !.Failed = @ + 1])
    /\ UNCHANGED Others

\* the Job controller marks the Job: Complete once a pod has succeeded,
\* Failed when the retries or the active deadline are used up
JobMarked ==
    /\ monitor.exists /\ monitor.status.Condition = ""
    /\ StatusUpdate([monitor.status EXCEPT
                        !.Condition = IF monitor.status.Succeeded > 0 THEN "Complete" ELSE "Failed"])
    /\ UNCHANGED Others

\* somebody deletes the Job
JobDeleted ==
    /\ monitor.exists
    /\ monitor' = [monitor EXCEPT !.exists = FALSE,
                                  !.events = IF monitor.closed THEN @
                                             ELSE Append(@, [Type |-> "DELETED",
                                                             Status |-> monitor.status])]
    /\ UNCHANGED Others

\* the API server ends the watch
WatchCloses ==
    /\ monitor.pc = "waiting" /\ ~monitor.closed
    /\ monitor' = [monitor EXCEPT !.closed = TRUE]
    /\ UNCHANGED Others

\* the caller's context is cancelled
CtxCancelled ==
    /\ monitor.pc = "waiting" /\ ~monitor.ctxDone
    /\ monitor' = [monitor EXCEPT !.ctxDone = TRUE]
    /\ UNCHANGED Others

\* the deadline of the Wait passes
DeadlinePasses ==
    /\ monitor.pc = "waiting" /\ ~monitor.expired
    /\ monitor' = [monitor EXCEPT !.expired = TRUE]
    /\ UNCHANGED Others

\* Wait returns a result made from the Job status it looked at
Collected(status) ==
    [monitor EXCEPT !.pc = "result", !.seen = status,
                    !.result = collectResult(monitor.name, status)]

\* Wait returns an error
Errored(err) == [monitor EXCEPT !.pc = "error", !.err = err]

\* first select of an iteration: the context is done
WaitCancelled ==
    /\ monitor.pc = "waiting" /\ monitor.ctxDone
    /\ monitor' = [Errored("context canceled") EXCEPT !.event = ""]
    /\ UNCHANGED Others

\* first select of an iteration: the deadline has passed
WaitTimedOut ==
    /\ monitor.pc = "waiting" /\ ~monitor.ctxDone /\ monitor.expired
    /\ monitor' = [Errored("job " \o monitor.name \o " timed out") EXCEPT !.event = ""]
    /\ UNCHANGED Others

\* the iteration goes on to the second select
Selecting == monitor.pc = "waiting" /\ ~monitor.ctxDone /\ ~monitor.expired

\* second select: an event arrives on the watcher's channel
WaitEvent ==
    /\ Selecting /\ monitor.events # <<>>
    /\ LET ev == Head(monitor.events) IN
       monitor' =
            IF ev.Type = "DELETED"
            THEN [Errored("job " \o monitor.name \o " was deleted")
                     EXCEPT !.events = Tail(@), !.event = ev.Type]
            ELSE IF isJobComplete(ev.Status) \/ isJobFailed(ev.Status)
            THEN [Collected(ev.Status) EXCEPT !.events = Tail(@), !.event = ev.Type]
            ELSE [monitor EXCEPT !.events = Tail(@), !.event = ev.Type]
    /\ UNCHANGED Others

\* second select: the channel is closed; the Job is fetched and its result
\* collected
WaitClosed ==
    /\ Selecting /\ monitor.events = <<>> /\ monitor.closed
    /\ monitor' = IF monitor.exists
                  THEN [Collected(monitor.status) EXCEPT !.event = "closed"]
                  ELSE [Errored("jobs.batch \"" \o monitor.name \o "\" not found")
                           EXCEPT !.event = "closed"]
    /\ UNCHANGED Others

\* second select: two seconds without an event; the Job is fetched
WaitPoll ==
    /\ Selecting /\ ~(monitor.events = <<>> /\ monitor.closed)
    /\ monitor' = IF ~monitor.exists
                  THEN [Errored("jobs.batch \"" \o monitor.name \o "\" not found")
                           EXCEPT !.event = "poll"]
                  ELSE IF isJobComplete(monitor.status) \/ isJobFailed(monitor.status)
                  THEN [Collected(monitor.status) EXCEPT !.event = "poll"]
                  ELSE [monitor EXCEPT !.event = "poll"]
    /\ UNCHANGED Others

\* Execute has created the Job and calls Wait: the watch is established
InitMonitor ==
    /\ cmExists = FALSE /\ store = EmptyMap /\ now = 0 /\ last = NilLast /\ calls = EmptyMap
    /\ jobs = EmptyMap
    /\ monitor = [NilMonitor EXCEPT !.pc = "waiting", !.name = "script-exec-e1", !.exists = TRUE]

NextMonitor ==
    \/ PodSucceeds
    \/ PodFails
    \/ JobMarked
    \/ JobDeleted
    \/ WatchCloses
    \/ CtxCancelled
    \/ DeadlinePasses
    \/ WaitCancelled
    \/ WaitTimedOut
    \/ WaitEvent
    \/ WaitClosed
    \/ WaitPoll

\* the monitor and the platform
SpecMonitor == InitMonitor /\ [][NextMonitor]_vars

Next ==
    \/ \E req \in FlowRequests : Execute(req)
    \/ \E e \in ExecutionIds, s \in ApiStepNames, u \in Users : ApproveCall(e, s, u)
    \/ \E e \in ExecutionIds, s \in ApiStepNames, u \in Users : DenyCall(e, s, u)
    \/ \E e \in ExecutionIds, s \in ApiStepNames : GetCall(e, s)
    \/ Tick
    \/ \E name \in DOMAIN jobs, phase \in {"complete", "failed"} : JobFinishes(name, phase)
    \/ \E name \in DOMAIN jobs : TTLDelete(name)

\* the approval flow: requests that differ in step, approvers and timeout
Spec == Init /\ [][Next]_vars

NextLoad ==
    \/ \E req \in LoadRequests : Execute(req)
    \/ \E e \in ExecutionIds, s \in ApiStepNames : GetCall(e, s)

\* the loader: requests that differ in the source fields they set
SpecLoad == Init /\ [][NextLoad]_vars

NextValidate ==
    \/ \E req \in ValidationRequests : Execute(req)
    \/ \E name \in DOMAIN jobs : TTLDelete(name)

\* the validation phase: requests that differ in script and image
SpecValidate == Init /\ [][NextValidate]_vars

NextResources ==
    \/ \E req \in ResourceRequests : Execute(req)
    \/ \E name \in DOMAIN jobs : TTLDelete(name)

\* the workload's resources: requests that differ in the limits they ask for
SpecResources == Init /\ [][NextResources]_vars

NextLifecycle ==
    \/ \E req \in LifecycleRequests, cfg \in LifecycleConfigs : ExecuteWith(req, cfg)
    \/ \E name \in DOMAIN jobs : TTLDelete(name)

\* the lifecycle knobs: requests and configurations that differ in retry
\* budget and timeout
SpecLifecycle == Init /\ [][NextLifecycle]_vars

NextService ==
    \/ \E req \in ServiceRequests : ServiceExecute(req)
    \/ \E req \in ServiceRequests : ExecuteStream(req)
    \/ \E name \in DOMAIN jobs : TTLDelete(name)

\* the RPC surface: Execute and ExecuteStream
SpecService == Init /\ [][NextService]_vars

NextImage ==
    \/ \E req \in ImageRequests, cfg \in ImageConfigs : jobs = EmptyMap /\ ExecuteWith(req, cfg)
    \/ \E name \in DOMAIN jobs : TTLDelete(name)

\* the image phase: requests and configurations that differ in image,
\* pull secret, pull policy and image lists, each request arriving when the
\* Job of the one before is gone
SpecImage == Init /\ [][NextImage]_vars

NextScript ==
    \E blocked \in BlockedLists, script \in ValidatorScripts : ScriptValidate(blocked, script)

\* the script validator on its own: scripts and blocked lists
SpecScript == Init /\ [][NextScript]_vars

NextKeys ==
    \/ \E req \in KeyRequests : Execute(req)
    \/ \E p \in KeyPairs : ApproveCall(p[1], p[2], "alice")
    \/ \E p \in KeyPairs : DenyCall(p[1], p[2], "alice")
    \/ \E p \in KeyPairs : GetCall(p[1], p[2])
    \/ Tick
    \/ \E name \in DOMAIN jobs : TTLDelete(name)

\* the approval flow for steps whose ids contain the key's separator
SpecKeys == Init /\ [][NextKeys]_vars

NextRescript ==
    \/ \E req \in RescriptRequests : Execute(req)
    \/ \E u \in Users : ApproveCall("e1", "default", u)
    \/ \E u \in Users : DenyCall("e1", "default", u)
    \/ Tick
    \/ \E name \in DOMAIN jobs : TTLDelete(name)

\* the approval flow for one step whose script changes between calls
SpecRescript == Init /\ [][NextRescript]_vars

TypeOK ==
    /\ cmExists \in BOOLEAN
    /\ now \in 0..MaxTime
    /\ \A k \in DOMAIN store : store[k].Status \in {StatusPending, StatusApproved, StatusDenied, StatusExpired}

-----------------------------------------------------------------------------
(* Vocabulary of the properties *)

\* the stages of Manager.Execute that come before the approval gate
ValidationStages == {"load", "validate", "resolve", "image"}

ApprovalRequired(req) == req.Parameters.approval_required

\* the store key of the request's (execution_id, step_name)
ReqKey(req) ==
    req.Context.ExecutionId \o "-" \o
        (IF req.Parameters.step_name = "" THEN "default" ELSE req.Parameters.step_name)

\* the status stored under key k ("" when there is no record)
StoredStatus(st, k) == IF k \in DOMAIN st THEN st[k].Status ELSE ""

\* the record under k is pending and its expires_at has passed at time t
Stale(st, k, t) == k \in DOMAIN st /\ st[k].Status = StatusPending /\ t > st[k].ExpiresAt

\* the status a get of k at time t answers with
EffectiveStatus(st, k, t) == IF Stale(st, k, t) THEN StatusExpired ELSE StoredStatus(st, k)

\* u is on the approver list, letter case aside
Member(u, list) == \E i \in 1..Len(list) : Fold(list[i]) = Fold(u)

\* the API call of the last step was made on this key
ApiKey(l) == l.executionID \o "-" \o l.stepName

-----------------------------------------------------------------------------
(* C1 *)

\* C1: an Execute with approval_required=true calls Jobs.Create only if the
\* record stored under the request's key is approved when the handler
\* starts; with any other stored status (none, pending, denied, expired) it
\* returns with the Jobs untouched.
C1_WorkloadOnlyIfApproved ==
    [][(last'.op = "Execute" /\ ApprovalRequired(last'.req)) =>
          /\ last'.submitted => StoredStatus(store, ReqKey(last'.req)) = StatusApproved
          /\ StoredStatus(store, ReqKey(last'.req)) # StatusApproved =>
                jobs' = jobs /\ ~last'.submitted /\ ~last'.created]_vars

\* an approval-gated Execute found its record approved and ran its Job
C1_Witness ==
    /\ last.op = "Execute" /\ ApprovalRequired(last.req)
    /\ last.rec = StatusApproved /\ last.created
    /\ last.resp.Status = "succeeded"
    /\ last.job.Name \in DOMAIN jobs

-----------------------------------------------------------------------------
(* C2 *)

\* C2: an Execute with approval_required=true that passes the stages before
\* the gate and finds no record under its key answers pending with the
\* error text "Awaiting approval", leaves a pending record under the key
\* and leaves the Jobs untouched.
C2_NoRecordPending ==
    [][(/\ last'.op = "Execute" /\ ApprovalRequired(last'.req)
        /\ ReqKey(last'.req) \notin DOMAIN store
        /\ last'.stage \notin ValidationStages) =>
          /\ last'.resp.Status = "pending"
          /\ last'.resp.Error = "Awaiting approval"
          /\ ReqKey(last'.req) \in DOMAIN store'
          /\ store'[ReqKey(last'.req)].Status = StatusPending
          /\ store'[ReqKey(last'.req)].ExecutionID = last'.req.Context.ExecutionId
          /\ cmExists'
          /\ jobs' = jobs /\ ~last'.submitted]_vars

\* the scenario: approvers ["Alice"], no prior record, answer pending
C2_Witness ==
    /\ last.op = "Execute" /\ ApprovalRequired(last.req)
    /\ last.req.Parameters.approvers = <<"Alice">>
    /\ last.rec = "" /\ last.resp.Status = "pending"
    /\ StoredStatus(store, ReqKey(last.req)) = StatusPending
    /\ store[ReqKey(last.req)].Approvers = <<"Alice">>
    /\ jobs = EmptyMap

\* C2 as stated, for every request: no record under the key means a pending
\* answer and a new pending record.
C2_AsStated ==
    [][(/\ last'.op = "Execute" /\ ApprovalRequired(last'.req)
        /\ ReqKey(last'.req) \notin DOMAIN store) =>
          /\ last'.resp.Status = "pending"
          /\ last'.resp.Error = "Awaiting approval"
          /\ StoredStatus(store', ReqKey(last'.req)) = StatusPending
          /\ jobs' = jobs]_vars

-----------------------------------------------------------------------------
(* C3 *)

\* C3: a successful approve leaves the record approved by the caller; an
\* Execute with approval_required=true that passes the stages before the
\* gate and finds its record approved passes the gate: it answers neither
\* pending nor "execution was denied", it leaves the store as it was, and
\* unless building the execution context fails it calls Jobs.Create.
C3_ApprovedPassesGate ==
    [][/\ (last'.op = "Approve" /\ last'.err = "") =>
             /\ StoredStatus(store', ApiKey(last')) = StatusApproved
             /\ store'[ApiKey(last')].ApprovedBy = last'.user
       /\ (/\ last'.op = "Execute" /\ ApprovalRequired(last'.req)
           /\ StoredStatus(store, ReqKey(last'.req)) = StatusApproved
           /\ last'.stage \notin ValidationStages) =>
             /\ last'.gate = StatusApproved
             /\ last'.resp.Status # "pending"
             /\ last'.resp.Error # "execution was denied"
             /\ store' = store
             /\ last'.stage = "build" \/ last'.submitted]_vars

\* alice approved the record made for approvers ["Alice"], and the request
\* issued again went past the gate and made its Job
C3_Witness ==
    /\ last.op = "Execute" /\ ApprovalRequired(last.req)
    /\ last.req.Parameters.approvers = <<"Alice">>
    /\ store[ReqKey(last.req)].ApprovedBy = "alice"
    /\ last.gate = StatusApproved
    /\ last.created

\* C3 as stated: with the record approved, the request issued again submits
\* a workload.
C3_AsStated ==
    [][(/\ last'.op = "Execute" /\ ApprovalRequired(last'.req)
        /\ StoredStatus(store, ReqKey(last'.req)) = StatusApproved
        /\ last'.stage \notin ValidationStages) =>
          last'.submitted]_vars

-----------------------------------------------------------------------------
(* C4 *)

\* C4: an Execute with approval_required=true whose record is denied makes
\* no workload and leaves the store as it was, the record denied; when it
\* passes the stages before the gate it answers failed with the reason
\* "execution was denied".
C4_DeniedFails ==
    [][(/\ last'.op = "Execute" /\ ApprovalRequired(last'.req)
        /\ StoredStatus(store, ReqKey(last'.req)) = StatusDenied) =>
          /\ jobs' = jobs /\ ~last'.submitted
          /\ store' = store
          /\ last'.resp.Status = "failed"
          /\ last'.stage \notin ValidationStages =>
                last'.resp = errorResponse("execution was denied")]_vars

\* an Execute met its denied record at the gate
C4_Witness ==
    /\ last.op = "Execute" /\ ApprovalRequired(last.req)
    /\ last.rec = StatusDenied
    /\ last.resp.Error = "execution was denied"
    /\ StoredStatus(store, ReqKey(last.req)) = StatusDenied

\* C4 as stated, for every request: a denied record means the reason
\* "execution was denied".
C4_AsStated ==
    [][(/\ last'.op = "Execute" /\ ApprovalRequired(last'.req)
        /\ StoredStatus(store, ReqKey(last'.req)) = StatusDenied) =>
          /\ last'.resp.Status = "failed"
          /\ last'.resp.Error = "execution was denied"]_vars

-----------------------------------------------------------------------------
(* C5 *)

\* what an approve or deny by l.user must leave under its key and answer,
\* given the store st and the time t it started from
DecisionOutcome(l, st, t, verb, status, field) ==
    LET k == ApiKey(l)
        eff == EffectiveStatus(st, k, t)
        expired == IF Stale(st, k, t) THEN [st EXCEPT ![k].Status = StatusExpired] ELSE st
    IN CASE k \notin DOMAIN st ->
              [err |-> IF cmExists THEN "approval request not found" ELSE "configmap not found",
               store |-> st]
         [] k \in DOMAIN st /\ eff # StatusPending ->
              [err |-> "cannot " \o verb \o ": status is " \o eff, store |-> expired]
         [] k \in DOMAIN st /\ eff = StatusPending /\ ~Member(l.user, st[k].Approvers) ->
              [err |-> "user " \o l.user \o " is not authorized to " \o verb, store |-> st]
         [] OTHER ->
              [err |-> "", store |-> [st EXCEPT ![k].Status = status, ![k][field] = l.user]]

\* C5: approve and deny set the record to approved / denied only when a get
\* finds it pending and the user is on its approver list, letter case
\* aside; a record that is not pending fails them with "status is ..."
\* whoever the user is, a user off the list fails with "not authorized" and
\* leaves the record pending.  A failing call leaves the store as it was,
\* but for one case: on a pending record past its expires_at the call fails
\* and the record is left rewritten to expired.
C5_DecisionRules ==
    [][/\ last'.op = "Approve" =>
             /\ last'.err = DecisionOutcome(last', store, now, "approve", StatusApproved, "ApprovedBy").err
             /\ store' = DecisionOutcome(last', store, now, "approve", StatusApproved, "ApprovedBy").store
       /\ last'.op = "Deny" =>
             /\ last'.err = DecisionOutcome(last', store, now, "deny", StatusDenied, "DeniedBy").err
             /\ store' = DecisionOutcome(last', store, now, "deny", StatusDenied, "DeniedBy").store
       /\ (last'.op \in {"Approve", "Deny"} /\ last'.err # "" /\ ~Stale(store, ApiKey(last'), now)) =>
             store' = store]_vars

\* mallory, who is not on the list, was refused and the record is pending
C5_Witness ==
    /\ last.op = "Approve" /\ last.user = "mallory"
    /\ last.err = "user mallory is not authorized to approve"
    /\ StoredStatus(store, ApiKey(last)) = StatusPending

\* C5 as stated: every failing approve or deny leaves the stored record
\* unchanged.
C5_AsStated ==
    [][(last'.op \in {"Approve", "Deny"} /\ last'.err # "") => store' = store]_vars

-----------------------------------------------------------------------------
(* C6 *)

\* C6: a get of a key whose stored record is pending and past its
\* expires_at stores the record with status expired, nothing else of it
\* changed, and returns it as expired; a get of any other record returns it
\* as stored and leaves the store alone; no step takes an approved or a
\* denied record to expired.
C6_LazyExpiry ==
    [][/\ (last'.op = "Get" /\ Stale(store, ApiKey(last'), now)) =>
             /\ store' = [store EXCEPT ![ApiKey(last')].Status = StatusExpired]
             /\ last'.rec = StatusExpired
       /\ (last'.op = "Get" /\ ~Stale(store, ApiKey(last'), now)) =>
             /\ store' = store
             /\ last'.rec = StoredStatus(store, ApiKey(last'))
       /\ \A k \in DOMAIN store :
             store[k].Status \in {StatusApproved, StatusDenied} =>
                k \in DOMAIN store' /\ store'[k].Status = store[k].Status]_vars

\* a get found a pending record past its expires_at and left it expired
C6_Witness ==
    /\ last.op = "Get" /\ last.rec = StatusExpired
    /\ StoredStatus(store, ApiKey(last)) = StatusExpired
    /\ now > store[ApiKey(last)].ExpiresAt

-----------------------------------------------------------------------------
(* C7 *)

\* no source field of the bag is set
NoSourceSet(p) ==
    /\ p.inline_script = "" /\ p.script_from_configmap = EmptyMap
    /\ p.script_from_secret = EmptyMap /\ p.script_path = "" /\ p.script_id = ""

\* the bag names a configmap entry the cluster does not hold
MissingConfigMapKey(p) ==
    /\ p.inline_script = "" /\ p.script_from_configmap # EmptyMap
    /\ \/ p.script_from_configmap.configmap_name \notin DOMAIN ClusterConfigMaps
       \/ p.script_from_configmap.key \notin
             DOMAIN ClusterConfigMaps[p.script_from_configmap.configmap_name]

\* the script text of a bag that sets inline_script or script_from_configmap
ScriptOf(p) ==
    IF p.inline_script # "" THEN p.inline_script
    ELSE IF p.script_from_configmap # EmptyMap /\ ~MissingConfigMapKey(p)
    THEN ClusterConfigMaps[p.script_from_configmap.configmap_name][p.script_from_configmap.key]
    ELSE ""

LineCount(script) == Cardinality({i \in 1..Len(script) : At(script, i) = "\n"}) + 1

\* the script is over a cap or starts with the blocked command rm
BadScript(script) ==
    \/ Len(script) > CfgMaxScriptSize
    \/ LineCount(script) > CfgMaxScriptLines
    \/ HasPrefix(script, "rm ")

\* the image of the bag: unknown to the catalog, or on the block list evil/*
BadImage(p) ==
    \/ HasPrefix(p.image, "evil/")
    \/ p.image = "" /\ p.image_ref # "" /\ p.image_ref \notin DOMAIN ImageCatalog
    \/ p.image = "" /\ p.image_ref \in DOMAIN ImageCatalog
          /\ HasPrefix(ImageCatalog[p.image_ref].Image, "evil/")

\* C7: an Execute whose script cannot be loaded, whose script is over the
\* size or line cap or runs a blocked command, whose image_ref is unknown
\* or whose image is blocked stops before the approval gate; an Execute
\* that stops there answers failed with a non-empty error and leaves the
\* approval store and the Jobs as they were.
C7_ValidationFailure ==
    [][last'.op = "Execute" =>
          /\ (\/ NoSourceSet(last'.req.Parameters)
              \/ MissingConfigMapKey(last'.req.Parameters)
              \/ BadScript(ScriptOf(last'.req.Parameters))
              \/ BadImage(last'.req.Parameters)) => last'.stage \in ValidationStages
          /\ last'.stage \in ValidationStages =>
                /\ last'.resp.Status = "failed" /\ last'.resp.Error # ""
                /\ store' = store /\ cmExists' = cmExists
                /\ jobs' = jobs /\ ~last'.submitted
          /\ (last'.stage = "validate" /\ HasPrefix(ScriptOf(last'.req.Parameters), "rm ")) =>
                last'.resp.Error = "script validation: blocked command detected: rm"]_vars

\* the scenario: inline_script "rm -rf /data" with approval asked for fails
\* on the blocked command, with no record and no Job made
C7_Witness ==
    /\ last.op = "Execute" /\ ApprovalRequired(last.req)
    /\ last.req.Parameters.inline_script = "rm -rf /data"
    /\ last.stage = "validate"
    /\ last.resp = errorResponse("script validation: blocked command detected: rm")
    /\ store = EmptyMap /\ jobs = EmptyMap

-----------------------------------------------------------------------------
(* C8 *)

\* the source type of the first source field the bag sets, in the order
\* inline_script, script_from_configmap, script_from_secret, script_path,
\* script_id ("" when it sets none)
FirstSet(p) ==
    CASE p.inline_script # "" -> SourceInline
      [] p.inline_script = "" /\ p.script_from_configmap # EmptyMap -> SourceConfigMap
      [] p.inline_script = "" /\ p.script_from_configmap = EmptyMap
            /\ p.script_from_secret # EmptyMap -> SourceSecret
      [] p.inline_script = "" /\ p.script_from_configmap = EmptyMap
            /\ p.script_from_secret = EmptyMap /\ p.script_path # "" -> SourcePath
      [] p.inline_script = "" /\ p.script_from_configmap = EmptyMap
            /\ p.script_from_secret = EmptyMap /\ p.script_path = ""
            /\ p.script_id # "" -> SourceRegistry
      [] OTHER -> ""

\* the bag with every source field but the first set one cleared
OnlyFirst(p) ==
    LET f == FirstSet(p) IN
    [p EXCEPT !.inline_script = IF f = SourceInline THEN @ ELSE "",
              !.script_from_configmap = IF f = SourceConfigMap THEN @ ELSE EmptyMap,
              !.script_from_secret = IF f = SourceSecret THEN @ ELSE EmptyMap,
              !.script_path = IF f = SourcePath THEN @ ELSE "",
              !.script_id = IF f = SourceRegistry THEN @ ELSE ""]

\* how many source fields the bag sets
SetCount(p) ==
    Cardinality({f \in {"inline_script", "script_path", "script_id"} : p[f] # ""}
                \cup {f \in {"script_from_configmap", "script_from_secret"} : p[f] # EmptyMap})

\* C8: the source an Execute loads its script from is that of the first set
\* field in the order inline_script, script_from_configmap,
\* script_from_secret, script_path, script_id, and the fields after it play
\* no part: the source, and the error when loading fails, are those of the
\* bag that sets that field alone.
C8_LoaderPriority ==
    [][last'.op = "Execute" =>
          LET p == last'.req.Parameters IN
          /\ last'.stage # "load" =>
                /\ last'.source.Type = FirstSet(p)
                /\ FirstSet(p) = SourceConfigMap =>
                      /\ last'.source.Name = p.script_from_configmap.configmap_name
                      /\ last'.source.Key = p.script_from_configmap.key
                /\ FirstSet(p) = SourceSecret =>
                      /\ last'.source.Name = p.script_from_secret.secret_name
                      /\ last'.source.Key = p.script_from_secret.key
                /\ FirstSet(p) = SourcePath => last'.source.Path = p.script_path
          /\ last'.source = LoadScript(OnlyFirst(p)).source
          /\ last'.stage = "load" => last'.resp.Error = LoadScript(OnlyFirst(p)).err]_vars

\* three fields set, inline_script not among them: the configmap was used
C8_Witness ==
    /\ last.op = "Execute"
    /\ last.req.Parameters.inline_script = ""
    /\ last.req.Parameters.script_from_configmap # EmptyMap
    /\ last.req.Parameters.script_path # ""
    /\ last.req.Parameters.script_id # ""
    /\ last.source.Type = SourceConfigMap
    /\ last.source.Name = "deploy-scripts"
    /\ last.stage = "approval"

-----------------------------------------------------------------------------
(* C9 *)

-----------------------------------------------------------------------------
(* C10 *)

\* the configured maximum limit of a resource
MaxLimit(name) ==
    CASE name = ResourceCPU -> ParseQuantity(Config.MaxResources.Limits.CPU).q
      [] name = ResourceMemory -> ParseQuantity(Config.MaxResources.Limits.Memory).q
      [] name = ResourceEphemeralStorage ->
            ParseQuantity(Config.MaxResources.Limits.EphemeralStorage).q

\* C10: every limit of every Job's container (cpu, memory,
\* ephemeral-storage) is at most the configured maximum limit.
C10_LimitsWithinMax ==
    \A n \in DOMAIN jobs : \A r \in DOMAIN jobs[n].Resources.Limits :
        Cmp(jobs[n].Resources.Limits[r], MaxLimit(r)) <= 0

\* a Job whose cpu and memory limits were reduced to the maxima while its
\* ephemeral-storage limit is the 50Gi the request asked for
C10_Witness ==
    /\ last.op = "Execute" /\ last.created
    /\ last.req.Parameters.resources.limits.cpu = "5"
    /\ last.req.Parameters.resources.limits.ephemeral_storage = "50Gi"
    /\ last.job.Resources.Limits[ResourceCPU] = MaxLimit(ResourceCPU)
    /\ last.job.Resources.Limits[ResourceEphemeralStorage] = ParseQuantity("50Gi").q
    /\ Cmp(last.job.Resources.Limits[ResourceEphemeralStorage],
           MaxLimit(ResourceEphemeralStorage)) > 0

-----------------------------------------------------------------------------
(* C11: for every request (backoff_limit absent, negative, in range or     *)
(* above 3) and every configured default backoff limit, the retry budget   *)
(* of the submitted workload is an integer in the range [0, 3].            *)
(* BuildContext clamps the value the request gives; a negative request     *)
(* value leaves the configured default in place, unclamped.                *)

C11_BackoffInRange ==
    (last.op = "Execute" /\ last.submitted) => last.job.BackoffLimit \in 0..3

\* a workload is submitted for a request whose backoff_limit is above 3
C11_Witness ==
    /\ last.op = "Execute" /\ last.submitted
    /\ getInt(last.req.Parameters, "backoff_limit") > 3
    /\ last.job.BackoffLimit = 3

-----------------------------------------------------------------------------
(* C12: for every request, with or without the request-level timeout       *)
(* override, the submitted workload's active-deadline in seconds equals    *)
(* the resolved timeout, and the monitor's outer wait deadline equals that *)
(* same resolved timeout plus 30 s.  Read with the active deadline being   *)
(* the whole seconds of the timeout: one timeout T gives both the active   *)
(* deadline (T in seconds) and the monitor's deadline (T + 30 s).          *)
(* Manager.Execute hands the override, when given, to the monitor only;    *)
(* the Job keeps the timeout of the execution context.                     *)

C12_DeadlinesAgree ==
    (last.op = "Execute" /\ last.created) =>
        /\ last.deadline >= 30 * 1000
        /\ last.job.ActiveDeadlineSeconds = (last.deadline - 30 * 1000) \div 1000

\* a run without override: the Job gets the 90 s of the timeout parameter,
\* the monitor 120 s
C12_Witness ==
    /\ last.op = "Execute" /\ last.created
    /\ last.req.Timeout = 0
    /\ last.req.Parameters.timeout = "90s"
    /\ last.job.ActiveDeadlineSeconds = 90
    /\ last.deadline = 120 * 1000

-----------------------------------------------------------------------------
(* C13: the resolved execution timeout is the request's timeout parameter  *)
(* when given and the configured default (5 min) otherwise, and it never   *)
(* exceeds the cap of 30 minutes: no workload is submitted with an         *)
(* active-deadline greater than the configured maximum timeout.            *)
(* BuildContext takes the parameter or the default as it is;               *)
(* Config.MaxTimeout has no caller.                                        *)

C13_TimeoutWithinCap ==
    (last.op = "Execute" /\ last.submitted) =>
        /\ last.timeout = IF last.req.Parameters.timeout # ""
                          THEN ParseDuration(last.req.Parameters.timeout).d
                          ELSE DefaultTimeout(Config)
        /\ last.timeout <= MaxTimeout(Config)
        /\ last.job.ActiveDeadlineSeconds * 1000 <= MaxTimeout(Config)

\* a workload submitted with the default timeout of 5 minutes
C13_Witness ==
    /\ last.op = "Execute" /\ last.submitted
    /\ last.req.Parameters.timeout = ""
    /\ last.timeout = 5 * 60 * 1000
    /\ last.job.ActiveDeadlineSeconds = 300

-----------------------------------------------------------------------------
(* C14: every workload manifest the builder produces, for every request    *)
(* and every configuration, has a container security context with          *)
(* allow_privilege_escalation=false, read_only_root_filesystem=true,       *)
(* run_as_non_root=true and capabilities drop=[ALL], and a pod security    *)
(* context with run-as-non-root and seccomp runtime-default; no request    *)
(* parameter can change these values.  The configurations are those        *)
(* config.Load produces: the defaults merged with a config file.           *)

Hardened(job) ==
    /\ job.SecurityContext.AllowPrivilegeEscalation = FALSE
    /\ job.SecurityContext.ReadOnlyRootFilesystem = TRUE
    /\ job.SecurityContext.RunAsNonRoot = TRUE
    /\ job.SecurityContext.Drop = <<"ALL">>
    /\ job.PodSecurityContext.RunAsNonRoot = TRUE
    /\ job.PodSecurityContext.SeccompProfile = "RuntimeDefault"

C14_SecurityContextFixed ==
    /\ (last.op = "Execute" /\ last.submitted) => Hardened(last.job)
    /\ \A name \in DOMAIN jobs : Hardened(jobs[name])

\* a workload built from a request that sets lifecycle parameters
C14_Witness ==
    /\ last.op = "Execute" /\ last.created
    /\ last.req.Parameters.backoff_limit = <<2>>
    /\ last.job.Name \in DOMAIN jobs
    /\ Hardened(jobs[last.job.Name])

-----------------------------------------------------------------------------
(* C15: the monitor classifies the watched workload as follows: a job with *)
(* condition complete=true or a succeeded counter > 0 yields a result with *)
(* success=true; a job with condition failed=true or a failed counter > 0  *)
(* yields a result with success=false; a deleted event for the job yields  *)
(* a WorkloadDeleted error and no result.                                  *)
(* collectResult takes success from the succeeded counter alone, so a Job  *)
(* with a failed pod and a succeeded one is a success: the failure rule    *)
(* holds for Jobs without a succeeded pod.                                 *)

DeletedAborts ==
    monitor.event = "DELETED" =>
        /\ monitor.pc = "error"
        /\ monitor.err = "job " \o monitor.name \o " was deleted"
        /\ monitor.result = NilResult

C15_Classification ==
    /\ monitor.pc = "result" =>
          /\ monitor.result.Succeeded = (monitor.seen.Succeeded > 0)
          /\ isJobComplete(monitor.seen) => monitor.result.Succeeded
          /\ (isJobFailed(monitor.seen) /\ monitor.seen.Succeeded = 0) => ~monitor.result.Succeeded
    /\ DeletedAborts

\* Wait returns a success for a Job with a failed pod and a succeeded one
C15_Witness ==
    /\ monitor.pc = "result"
    /\ monitor.seen.Failed > 0 /\ monitor.seen.Succeeded > 0
    /\ monitor.result.Succeeded

\* C15 as stated: every Job with a failed pod or the Failed condition is a
\* failure
C15_AsStated ==
    /\ monitor.pc = "result" =>
          /\ isJobComplete(monitor.seen) => monitor.result.Succeeded
          /\ isJobFailed(monitor.seen) => ~monitor.result.Succeeded
    /\ DeletedAborts

-----------------------------------------------------------------------------
(* C16: Execute never deletes a workload or an approval record: when the   *)
(* monitor's deadline elapses (Timeout) or the calling context is          *)
(* cancelled, Execute returns a failed outcome while the submitted         *)
(* workload still exists on the cluster and any approval record created    *)
(* for the request is still in the store.  (A Job that is gone after       *)
(* Execute was deleted by somebody else: the monitor saw the deleted       *)
(* event.)                                                                 *)

C16_ExecuteDeletesNothing ==
    [][last'.op = "Execute" =>
         /\ DOMAIN store \subseteq DOMAIN store'
         /\ last'.mon # "deleted" => DOMAIN jobs \subseteq DOMAIN jobs'
         /\ last'.mon \in {"timeout", "cancelled"} =>
               /\ last'.resp.Status = "failed"
               /\ last'.job.Name \in DOMAIN jobs'
               /\ jobs'[last'.job.Name] = last'.job]_vars

\* the wait for the Job of an approved request timed out: Job and approval
\* record are there
C16_Witness ==
    /\ last.op = "Execute" /\ last.mon = "timeout"
    /\ ApprovalRequired(last.req)
    /\ StoredStatus(store, ReqKey(last.req)) = StatusApproved
    /\ last.job.Name \in DOMAIN jobs

-----------------------------------------------------------------------------
(* C17: with audit enabled, an audit record is emitted for every terminal  *)
(* outcome of Execute: succeeded runs, failed runs (non-zero exit),        *)
(* validation failures, submit failures, timeouts, and approval            *)
(* short-circuits (pending and denied).  Manager.Execute calls the audit   *)
(* logger at one place, after the monitor has returned a result.           *)

C17_AuditEveryOutcome ==
    (last.op = "Execute" /\ Config.AuditEnabled) => Len(last.audit) = 1

\* a run whose Job exited non-zero leaves one audit record
C17_Witness ==
    /\ last.op = "Execute" /\ last.resp.Status = "failed" /\ last.stage = "done"
    /\ Len(last.audit) = 1
    /\ last.audit[1].execution_id = last.req.Context.ExecutionId
    /\ ~last.audit[1].succeeded

-----------------------------------------------------------------------------
(* C18: every Execute response has status in {succeeded, failed, pending}; *)
(* its error string is non-empty whenever the status is not succeeded (and *)
(* empty when succeeded); and its output record (exit code, content hash,  *)
(* workload identifier) is populated whenever the monitor returned a       *)
(* result for the workload, including non-zero-exit failures.  A response  *)
(* to a run whose submit was refused or whose wait ended in an error       *)
(* carries no output.                                                      *)

Populated(l) ==
    /\ l.resp.Output.exit_code >= 0
    /\ l.resp.Output.job_name = l.job.Name /\ l.job.Name # ""
    /\ l.resp.Output.script_hash = l.job.ScriptHash

WellFormed(resp) ==
    /\ resp.Status \in {"succeeded", "failed", "pending"}
    /\ (resp.Status = "succeeded") <=> (resp.Error = "")

C18_ResponseShape ==
    last.op = "Execute" =>
        /\ WellFormed(last.resp)
        /\ last.mon \in {"succeeded", "failed"} => Populated(last)
        /\ last.mon \notin {"succeeded", "failed"} => last.resp.Output = NilOutput

\* a run whose Job exited non-zero: failed, with an error and the output
C18_Witness ==
    /\ last.op = "Execute" /\ last.mon = "failed"
    /\ last.resp.Status = "failed" /\ last.resp.Error = "exit code 1"
    /\ last.resp.Output.exit_code = 1
    /\ Populated(last)

\* C18 as stated: the output is populated whenever a workload was submitted
C18_AsStated ==
    last.op = "Execute" =>
        /\ WellFormed(last.resp)
        /\ last.submitted => Populated(last)

-----------------------------------------------------------------------------
(* C19: for every script.run request, ExecuteStream emits at least three   *)
(* progress events in the order starting, running, done, with              *)
(* percent-complete monotonically non-decreasing across the stream, and    *)
(* the final (done) event carries the same response that Execute would     *)
(* return for that request; for a step type other than script.run neither  *)
(* Execute nor ExecuteStream runs any pipeline stage.                       *)
(* ExecuteStream sends running and done only after Manager.Execute has     *)
(* returned; a request whose resource quantity is malformed makes          *)
(* Manager.Execute panic, and the stream ends after starting.              *)

\* the responses Manager.Execute can give to req in the current state
ExecuteResponses(req) ==
    LET p == Pipeline(req, cmExists, store, jobs, now, Config) IN
    {ExecuteOutcome(p, req, mon, pick, Config).resp :
        mon \in IF p.created THEN MonitorOutcomes ELSE {""},
        pick \in IF p.cmds = {} THEN {""} ELSE p.cmds}

StreamInOrder(s) ==
    /\ Len(s) >= 3
    /\ \E i, j \in 1..Len(s) :
          /\ i < j /\ j < Len(s)
          /\ s[i].Stage = "STARTING" /\ s[j].Stage = "RUNNING"
    /\ s[Len(s)].Stage = "DONE"
    /\ \A i \in 1..(Len(s) - 1) : s[i].PercentComplete <= s[i + 1].PercentComplete

C19_StreamContract ==
    [][/\ (last'.op = "ExecuteStream" /\ last'.req.StepType = "script.run") =>
             /\ StreamInOrder(last'.stream)
             /\ last'.stream[Len(last'.stream)].Result \in ExecuteResponses(last'.req)
       /\ (last'.op \in {"Execute", "ExecuteStream"} /\ last'.req.StepType # "script.run") =>
             /\ last'.stage = "" /\ last'.stream = <<>>
             /\ UNCHANGED <<cmExists, store, jobs>>]_vars

\* a stream of three events whose last one carries a succeeded response
C19_Witness ==
    /\ last.op = "ExecuteStream" /\ last.req.StepType = "script.run"
    /\ StreamInOrder(last.stream)
    /\ last.stream[3].Result.Status = "succeeded"
    /\ last.stream[3].Result = last.resp

-----------------------------------------------------------------------------
(* C20: when two concurrent Execute calls carry the same execution_id and  *)
(* step_name and both reach workload submission, at most one workload      *)
(* named script-exec-{execution_id} is created; the call that submits      *)
(* second receives AlreadyExists from the platform and returns status      *)
(* failed, under every interleaving.                                       *)

\* the step is the Create of caller c
Submits(c) == calls[c].pc = "submit" /\ calls'[c].pc # "submit"

C20_OneWorkload ==
    [][\A c \in Callers : Submits(c) =>
          /\ calls[c].job.Name = "script-exec-" \o calls[c].req.Context.ExecutionId
          /\ IF calls[c].job.Name \in DOMAIN jobs
             THEN /\ jobs' = jobs
                  /\ calls'[c].pc = "done"
                  /\ calls'[c].resp.Status = "failed"
                  /\ calls'[c].resp.Error =
                        "create job: jobs.batch \"" \o calls[c].job.Name \o "\" already exists"
             ELSE /\ calls'[c].pc = "wait"
                  /\ DOMAIN jobs' = DOMAIN jobs \cup {calls[c].job.Name}
          /\ Cardinality({d \in Callers : calls'[d].created}) <= 1]_vars

\* both calls for the approved step reached submission: one waits for the
\* Job it created, the other was refused
C20_Witness ==
    /\ calls # EmptyMap
    /\ \E c, d \in Callers :
          /\ c # d
          /\ calls[c].req = calls[d].req /\ ApprovalRequired(calls[c].req)
          /\ calls[c].pc = "wait" /\ calls[c].created
          /\ calls[d].pc = "done" /\ calls[d].job = calls[c].job
          /\ calls[d].resp.Status = "failed" /\ ~calls[d].created

-----------------------------------------------------------------------------
(* C21: image resolution follows the precedence image > image_ref >        *)
(* configured default.  An explicit image is used verbatim and the catalog *)
(* is not consulted (an unknown image_ref beside it is no error);          *)
(* otherwise an image_ref is looked up in the catalog and the request      *)
(* fails at the resolve stage when the key is missing; otherwise the       *)
(* default image is used.  The pull secret of the submitted workload is    *)
(* the catalog entry's value if non-empty, else the request's              *)
(* image_pull_secret, else the configured default (none when that is       *)
(* empty too).                                                             *)

\* the catalog entry a request resolves through, if any
UsesCatalog(p) == p.image = "" /\ p.image_ref \in DOMAIN ImageCatalog

ExpectedImage(p, cfg) ==
    IF p.image # "" THEN p.image
    ELSE IF p.image_ref # "" THEN ImageCatalog[p.image_ref].Image
    ELSE cfg.DefaultImage

ExpectedPullSecret(p, cfg) ==
    IF UsesCatalog(p) /\ ImageCatalog[p.image_ref].PullSecret # ""
    THEN ImageCatalog[p.image_ref].PullSecret
    ELSE IF p.image_pull_secret # "" THEN p.image_pull_secret
    ELSE cfg.DefaultImagePullSecret

C21_ImagePrecedence ==
    last.op = "Execute" =>
        LET p == last.req.Parameters
            unknown == p.image = "" /\ p.image_ref # "" /\ p.image_ref \notin DOMAIN ImageCatalog
        IN /\ unknown <=> last.stage = "resolve"
           /\ unknown => /\ last.resp.Status = "failed" /\ ~last.submitted
                         /\ last.resp.Error =
                                "resolve image: image_ref \"" \o p.image_ref \o "\" not found in catalog"
           /\ last.submitted =>
                /\ last.job.Image = ExpectedImage(p, last.cfg)
                /\ last.job.ImagePullSecrets =
                     IF ExpectedPullSecret(p, last.cfg) = "" THEN <<>>
                     ELSE <<ExpectedPullSecret(p, last.cfg)>>

\* a workload is submitted for an image_ref whose catalog entry has a pull
\* secret, by a request that names a pull secret of its own
C21_Witness ==
    /\ last.op = "Execute" /\ last.submitted
    /\ last.req.Parameters.image = "" /\ last.req.Parameters.image_ref = "terraform"
    /\ last.req.Parameters.image_pull_secret = "req-creds"
    /\ last.job.Image = "harbor/terraform:1.7"
    /\ last.job.ImagePullSecrets = <<"harbor-creds">>

-----------------------------------------------------------------------------
(* C22: the pull policy of the submitted workload's container is the       *)
(* request's image_pull_policy when it is one of Always, IfNotPresent,     *)
(* Never; otherwise (absent or invalid) it is the default pull policy the  *)
(* config file sets; and only when the file sets none is it IfNotPresent.  *)
(* Stated for every config file the running configuration can have been    *)
(* loaded from.                                                            *)

PullPolicies == {"Always", "IfNotPresent", "Never"}

ExpectedPullPolicy(p, file) ==
    IF p.image_pull_policy \in PullPolicies THEN p.image_pull_policy
    ELSE IF file.DefaultImagePullPolicy # "" THEN file.DefaultImagePullPolicy
    ELSE "IfNotPresent"

C22_PullPolicy ==
    (last.op = "Execute" /\ last.submitted) =>
        \A file \in ImageFiles :
            last.cfg = Load(file) =>
                last.job.ImagePullPolicy = ExpectedPullPolicy(last.req.Parameters, file)

\* a workload is submitted with the valid pull policy its request names
C22_Witness ==
    /\ last.op = "Execute" /\ last.submitted
    /\ last.req.Parameters.image_pull_policy = "Never"
    /\ last.job.ImagePullPolicy = "Never"

-----------------------------------------------------------------------------
(* C23: no workload is submitted whose image matches a blocked image       *)
(* pattern (exact, or prefix when the pattern ends in "*"), nor, when the  *)
(* approved list is non-empty, whose image matches no approved pattern.    *)
(* Blocked patterns are evaluated before approved ones: an image matching  *)
(* both is rejected as blocked.  When both lists are empty every image is  *)
(* allowed.                                                                *)

PatternMatches(image, pattern) ==
    IF HasSuffix(pattern, "*") THEN HasPrefix(image, TrimSuffix(pattern, "*"))
    ELSE image = pattern

MatchesAny(image, patterns) ==
    \E i \in 1..Len(patterns) : PatternMatches(image, patterns[i])

\* the request's image_ref is looked up and is not in the catalog
UnknownImageRef(p) ==
    p.image = "" /\ p.image_ref # "" /\ p.image_ref \notin DOMAIN ImageCatalog

C23_ImageLists ==
    last.op = "Execute" =>
        LET p == last.req.Parameters
            approved == last.cfg.ApprovedImages
            blocked == last.cfg.BlockedImages
            image == ExpectedImage(p, last.cfg)
        IN /\ last.submitted =>
                /\ ~MatchesAny(last.job.Image, blocked)
                /\ Len(approved) > 0 => MatchesAny(last.job.Image, approved)
           /\ ~UnknownImageRef(p) =>
                /\ MatchesAny(image, blocked) =>
                     /\ last.stage = "image" /\ last.resp.Status = "failed"
                     /\ HasPrefix(last.resp.Error,
                                  "image validation: image " \o image \o " is blocked")
                /\ (~MatchesAny(image, blocked) /\ Len(approved) > 0
                                                /\ ~MatchesAny(image, approved)) =>
                     /\ last.stage = "image" /\ last.resp.Status = "failed"
                     /\ last.resp.Error =
                            "image validation: image " \o image \o " is not in approved list"
                /\ (Len(approved) = 0 /\ Len(blocked) = 0) => last.stage # "image"

\* an image that matches an approved and a blocked pattern is rejected as
\* blocked
C23_Witness ==
    /\ last.op = "Execute" /\ last.stage = "image" /\ ~last.submitted
    /\ MatchesAny(ExpectedImage(last.req.Parameters, last.cfg), last.cfg.ApprovedImages)
    /\ MatchesAny(ExpectedImage(last.req.Parameters, last.cfg), last.cfg.BlockedImages)
    /\ HasPrefix(last.resp.Error, "image validation: image harbor/terraform:1.7 is blocked")

-----------------------------------------------------------------------------
(* C24: the script validator rejects a script with "blocked command"       *)
(* exactly when some non-empty, non-comment line's command matches a       *)
(* blocked pattern, where the command is the line's first whitespace-      *)
(* separated token after stripping a leading |, &&, || or ; and after      *)
(* promoting sudo X / su X to X, and where a pattern ending in "*" matches *)
(* any command with that prefix and a pattern without it matches only the  *)
(* identical command.                                                      *)

\* the token without the operator it starts with
StripOperator(tok) ==
    IF HasPrefix(tok, "&&") THEN TrimPrefix(tok, "&&")
    ELSE IF HasPrefix(tok, "||") THEN TrimPrefix(tok, "||")
    ELSE IF HasPrefix(tok, "|") THEN TrimPrefix(tok, "|")
    ELSE TrimPrefix(tok, ";")

\* the command of a non-empty line
CommandOf(line) ==
    LET tokens == Fields(line)
        first == StripOperator(tokens[1])
    IN IF first \in {"sudo", "su"} /\ Len(tokens) > 1 THEN tokens[2] ELSE first

CommandLines(script) ==
    LET lines == Split(script) IN
    {TrimSpace(lines[i]) : i \in {j \in 1..Len(lines) :
                                    /\ TrimSpace(lines[j]) # ""
                                    /\ ~HasPrefix(TrimSpace(lines[j]), "#")}}

HasBlockedCommand(script, blocked) ==
    \E line \in CommandLines(script) : MatchesAny(CommandOf(line), blocked)

C24_BlockedCommand ==
    last.op = "Validate" =>
        (HasPrefix(last.err, "blocked command detected: ")
            <=> HasBlockedCommand(last.req.Parameters.inline_script, last.cfg.BlockedCommands))

\* a script whose second line runs a command under sudo is rejected for the
\* command, which a prefix pattern matches
C24_Witness ==
    /\ last.op = "Validate"
    /\ last.req.Parameters.inline_script = "echo hi\nsudo rm /x\n"
    /\ last.cfg.BlockedCommands = <<"rm*">>
    /\ last.err = "blocked command detected: rm"

-----------------------------------------------------------------------------
(* C25: an approval record is created only on the first encounter of its   *)
(* key: an Execute that finds an existing record in pending status answers *)
(* PENDING without writing to the approval store, so the record's id,      *)
(* created_at, expires_at and approver list are unchanged by repeated      *)
(* Execute calls, and a pending record still expires 24 h after its        *)
(* original creation.                                                      *)

C25_PendingNotRewritten ==
    [][(last'.op = "Execute" /\ last'.rec = StatusPending) =>
          /\ last'.resp.Status = "pending"
          /\ store' = store]_vars

\* an Execute has found the pending record of its key and answered PENDING
\* at a time after the first hour
C25_Witness ==
    /\ last.op = "Execute" /\ last.rec = StatusPending
    /\ last.resp.Status = "pending"
    /\ ReqKey(last.req) \in DOMAIN store
    /\ now > 0

-----------------------------------------------------------------------------
(* C26: a decision on an approval record is final for every call that      *)
(* reads the record after the decision is stored: a record in approved or  *)
(* denied status is only ever overwritten by a call that read the key      *)
(* before that (and saw it missing, pending or expired), never by a call   *)
(* that read it as approved or denied.                                     *)

Decided == {StatusApproved, StatusDenied}

C26_DecisionFinalForLaterReaders ==
    [][\A k \in DOMAIN store :
          (store[k].Status \in Decided /\ store'[k] # store[k]) =>
              \E c \in Clients :
                  /\ calls[c].pc = "write" /\ calls[c].key = k
                  /\ calls[c].seen \notin Decided
                  /\ calls'[c] # calls[c]]_vars

\* the call of client c returned success for its approve or deny
Succeeded(c, op) == calls[c].op = op /\ calls[c].pc = "done" /\ calls[c].err = ""

\* an approve and a deny on the same record have both returned success
C26_Witness ==
    /\ calls # EmptyMap
    /\ \E c, d \in Clients :
          /\ Succeeded(c, "Approve") /\ Succeeded(d, "Deny")
          /\ calls[c].key = calls[d].key

\* C26 as stated: approved and denied are absorbing: once an approve
\* (respectively a deny) has returned success for a key, the stored status
\* of the record stays approved (respectively denied) in every later state,
\* under any interleaving of concurrent Execute, approve, deny and get calls
\* on the key; in particular a concurrent approve and deny on one pending
\* record cannot both succeed.
C26_AsStated ==
    \A c \in Clients :
        /\ Succeeded(c, "Approve") => StoredStatus(store, calls[c].key) = StatusApproved
        /\ Succeeded(c, "Deny") => StoredStatus(store, calls[c].key) = StatusDenied

-----------------------------------------------------------------------------
(* C27: approval records are keyed uniquely by (execution_id, step_name):  *)
(* two requests with different (execution_id, step_name) pairs never read  *)
(* or write the same stored record, so creating, approving, denying or     *)
(* expiring the record of one pair never changes the gate outcome of       *)
(* another pair.  Stated per step: a call made for one pair changes no     *)
(* record that was stored for another pair, and a gate that reads a record *)
(* reads one stored for the pair of its request.                           *)

\* the pair a stored record was created for
RecordPair(r) == <<r.ExecutionID, r.StepName>>

\* the pair the call of the last step was made for
CallPair(l) == <<l.executionID, l.stepName>>

StoreCalls == {"Execute", "Approve", "Deny", "Get"}

C27_KeysUnique ==
    [][last'.op \in StoreCalls =>
          \A k \in DOMAIN store :
              /\ store'[k] # store[k] => RecordPair(store[k]) = CallPair(last')
              /\ (last'.rec # "" /\ k = Key(last'.executionID, last'.stepName)) =>
                    RecordPair(store[k]) = CallPair(last')]_vars

\* an Execute for one pair has passed the gate on the approved record of
\* another pair
C27_Witness ==
    /\ last.op = "Execute" /\ last.gate = StatusApproved /\ last.submitted
    /\ ReqKey(last.req) \in DOMAIN store
    /\ RecordPair(store[ReqKey(last.req)]) # CallPair(last)

-----------------------------------------------------------------------------
(* C28: a workload submitted after passing the approval gate runs the      *)
(* script that was approved: the content hash of the script in the         *)
(* submitted workload (its script-hash annotation) equals the script_hash  *)
(* stored in the approved record for that (execution_id, step_name), for   *)
(* every sequence of Execute calls with the same key and possibly          *)
(* different script content.                                               *)

C28_RunsApprovedScript ==
    (last.op = "Execute" /\ last.gate = StatusApproved /\ last.submitted) =>
        /\ ReqKey(last.req) \in DOMAIN store
        /\ store[ReqKey(last.req)].Status = StatusApproved
        /\ last.job.ScriptHash = store[ReqKey(last.req)].ScriptHash

\* a workload is submitted for the script whose record was approved
C28_Witness ==
    /\ last.op = "Execute" /\ last.gate = StatusApproved /\ last.submitted
    /\ ReqKey(last.req) \in DOMAIN store
    /\ store[ReqKey(last.req)].ScriptHash = Sha256Hex(last.req.Parameters.inline_script)
    /\ last.job.ScriptHash = Sha256Hex(last.req.Parameters.inline_script)

-----------------------------------------------------------------------------
(* C29: Execute is total over parameter bags: for every request, including *)
(* ones whose values are missing, wrong-typed or malformed (an unparsable  *)
(* resource quantity or timeout string), Execute returns a response with   *)
(* status succeeded, failed or pending and never aborts the handling task  *)
(* (no panic); a malformed value yields either the documented default or a *)
(* failed response.                                                        *)

C29_ExecuteTotal ==
    (last.op = "Execute" /\ last.req.StepType = "script.run") =>
        /\ last.resp.Status \in {"succeeded", "failed", "pending"}
        /\ (last.req.Parameters.timeout = "bogus" \/ last.req.Parameters.resources # EmptyMap) =>
              last.resp.Status = "failed"

\* an unparsable timeout string yields a failed response
C29_Witness ==
    /\ last.op = "Execute" /\ last.req.StepType = "script.run"
    /\ last.req.Parameters.timeout = "bogus"
    /\ last.resp.Status = "failed"
    /\ last.stage = "build"
    /\ last.resp.Error = "invalid timeout \"bogus\": time: invalid duration"

-----------------------------------------------------------------------------
(* C30: the monitor's Wait returns a result (rather than an error) only    *)
(* when the Job it looked at is in a terminal state, complete or failed:   *)
(* while the Job is still active Wait keeps waiting, whatever the watch    *)
(* events, watch-channel closures and periodic refetches, until a terminal *)
(* state, the deadline or cancellation.                                    *)

C30_ResultOnlyWhenTerminal ==
    monitor.pc = "result" =>
        isJobComplete(monitor.seen) \/ isJobFailed(monitor.seen)

\* Wait returns the result of a Job that a watch event showed as terminal
C30_Witness ==
    /\ monitor.pc = "result" /\ monitor.event = "MODIFIED"
    /\ isJobComplete(monitor.seen) \/ isJobFailed(monitor.seen)
    /\ monitor.result = collectResult(monitor.name, monitor.seen)

====
